---- MODULE Spec2Model ----
(***************************************************************************)
(* Model of the railguard pipeline orchestrator: Guard.Run                  *)
(* (src/railguard.go), the retry policy RetryConfig.delay / backoff and    *)
(* the classifier shouldRetry (package railguard part of                   *)
(* src/railguard_test.go, lines 261-396) and the error wrappers            *)
(* (src/unnamed/part_004).                                                 *)
(*                                                                         *)
(* Collaborators (detectors, client, validators, the JSON decoder) are     *)
(* opaque: every call returns nil or an error, chosen nondeterministically.*)
(* An error returned by a collaborator is represented by what errors.Is /  *)
(* errors.As can find in its chain:                                        *)
(*   "plain"     neither a context error nor a *DetectionError             *)
(*   "canceled"  the chain contains context.Canceled                       *)
(*   "deadline"  the chain contains context.DeadlineExceeded               *)
(*   "detection" the chain contains a *DetectionError (e.g. the client is  *)
(*               itself a Guard)                                           *)
(* Durations are integers (time.Duration is an int64 of nanoseconds); the  *)
(* jitter fraction and the random draw are rationals n/JitterDen and       *)
(* n/RandDen; float64 rounding is not modelled.                            *)
(***************************************************************************)
EXTENDS Integers, Sequences, FiniteSets, TLC

\* ---------------------------------------------------------------- bounds
MaxAttemptsBound == 3   \* largest RetryConfig.MaxAttempts explored
MaxChecks == 2          \* largest number of detectors / of validators
MaxDuration == 4        \* largest InitialDelay / MaxDelay explored
MaxMultiplier == 2      \* largest (integral) Multiplier explored
JitterDen == 2          \* Jitter takes the values n/JitterDen, n in 0..JitterDen
RandDen == 4            \* rand.Float64() takes the values n/RandDen, n in 0..RandDen-1
MaxDelayAttempt == 3    \* largest attempt index handed to delay in DelaySpec
MaxOpts == 3            \* largest number of options handed to New
MaxMembers == 3         \* largest number of members of a Detectors / Validators aggregate
MaxListOpts == 2        \* largest number of list options handed to New before a Run

VARIABLES
    retry,          \* Guard.retry : RetryConfig
    timeout,        \* Guard.timeout (0 = none)
    detectors,      \* Guard.detectors : sequence of detector names
    validators,     \* Guard.validators : sequence of validator names
    hasSchema,      \* Guard.schema # nil
    schemaStrict,   \* Guard.schema.strict (TRUE when there is no schema)
    pc,             \* position of Run
    di,             \* runDetectors: index of the next detector
    vi,             \* runValidators: index of the next validator
    attempt,        \* Run: loop variable attempt
    lastErr,        \* Run: local lastErr
    output,         \* Run: local output of the current attempt
    ret,            \* the pair (*Result, error) returned by Run
    ctxErr,         \* ctx.Err() of the context Run works with
    timeoutElapsed, \* history: the timer of context.WithTimeout has expired
    hist,           \* history: call counters and per-attempt log
    stage,          \* history: the calls made in the check phases and the attempt
    dly,            \* last evaluation of RetryConfig.delay: [attempt, rand, result]
    decoded,        \* last direct call of Schema.Unmarshal: [text, strict, res]
    cons,           \* a call of New: [g, applied, ret]
    other,          \* the local state of a second Run on the same Guard
    validated,      \* last direct call of RetryConfig.Validate: [config, called, ok]
    prevDecoded,    \* the direct Schema call before the one in decoded
    agg,            \* a call of Detectors.Detect / Validators.Validate: [kind, members, i, log, done, err]
    intent,         \* an Intent detector and the Detect call made on it
    heap,           \* the instances reflect.New made that a Result's Parsed points to
    held            \* the slices Guard.Detectors() / Guard.Validators() returned to the caller

vars == <<retry, timeout, detectors, validators, hasSchema, schemaStrict, pc, di, vi,
          attempt, lastErr, output, ret, ctxErr, timeoutElapsed, hist, stage, dly,
          decoded, cons, other, validated, prevDecoded, agg, intent, heap, held>>

\* the variables no step of Run touches
outside == <<dly, decoded, cons, other, validated, prevDecoded, agg, intent, held>>

\* ---------------------------------------------------------------- errors
Causes == {"plain", "canceled", "deadline", "detection"}

NoErr == [kind |-> "nil"]
NoResult == [kind |-> "nil"]

DetectionError(n, c) == [kind |-> "DetectionError", name |-> n, cause |-> c]
ValidationError(n, c) == [kind |-> "ValidationError", name |-> n, cause |-> c]
SchemaError(c) == [kind |-> "SchemaError", name |-> "", cause |-> c]
GenerationError(c) == [kind |-> "GenerationError", name |-> "", cause |-> c]
MaxRetriesError(n, e) == [kind |-> "MaxRetriesError", Attempts |-> n, LastErr |-> e]
\* the bare sentinel returned by ctx.Err(): context.Canceled / context.DeadlineExceeded
ContextError(c) == [kind |-> "context", name |-> "", cause |-> c]

\* variant: Attempts reports the 0-based loop index
ResultZeroIndexed(raw, parsed, a) ==
    [kind |-> "Result", Raw |-> raw, Parsed |-> parsed, Attempts |-> a]

\* &Result{Raw: output, Parsed: parsed, Metadata: Metadata{Attempts: attempt + 1}}
Result(raw, parsed, a) ==
    [kind |-> "Result", Raw |-> raw, Parsed |-> parsed, Attempts |-> a + 1]

\* the error a detector, validator, client or decoder returned; cause tells
\* what its own chain holds
Collaborator(c) == [kind |-> "collaborator", name |-> "", cause |-> c]

WrapperKinds == {"DetectionError", "ValidationError", "SchemaError", "GenerationError"}

\* variant: MaxRetriesError has no Unwrap method
UnwrapStopsAtMaxRetries(err) ==
    IF err.kind \in WrapperKinds THEN Collaborator(err.cause)
    ELSE NoErr

\* the Unwrap methods: e.Err of the four wrappers, e.LastErr of MaxRetriesError
Unwrap(err) ==
    IF err.kind = "MaxRetriesError" THEN err.LastErr
    ELSE IF err.kind \in WrapperKinds THEN Collaborator(err.cause)
    ELSE NoErr

\* errors.Is(err, context.Canceled / context.DeadlineExceeded) through Unwrap
RECURSIVE ErrIs(_, _)
ErrIs(err, target) ==
    IF err.kind = "nil" THEN FALSE
    ELSE IF err.kind \in {"collaborator", "context"} THEN err.cause = target
    ELSE ErrIs(Unwrap(err), target)

\* errors.As(err, &detectionErr) through Unwrap
RECURSIVE ErrAsDetection(_)
ErrAsDetection(err) ==
    IF err.kind = "nil" THEN FALSE
    ELSE IF err.kind = "DetectionError" THEN TRUE
    ELSE IF err.kind \in {"collaborator", "context"} THEN err.cause = "detection"
    ELSE ErrAsDetection(Unwrap(err))

fatalErrors == {"canceled", "deadline"}

\* variant: only context.Canceled is treated as fatal
shouldRetryCanceledOnly(err) ==
    IF err = NoErr THEN FALSE
    ELSE IF ErrAsDetection(err) THEN FALSE
    ELSE IF ErrIs(err, "canceled") THEN FALSE
    ELSE TRUE

\* variant: validation failures are treated like detection failures
shouldRetryValidationFatal(err) ==
    IF err = NoErr THEN FALSE
    ELSE IF ErrAsDetection(err) \/ err.kind = "ValidationError" THEN FALSE
    ELSE IF \E f \in fatalErrors : ErrIs(err, f) THEN FALSE
    ELSE TRUE

shouldRetry(err) ==
    IF err = NoErr THEN FALSE
    ELSE IF ErrAsDetection(err) THEN FALSE
    ELSE IF \E f \in fatalErrors : ErrIs(err, f) THEN FALSE
    ELSE TRUE

\* ---------------------------------------------------------------- retry policy
\* DefaultRetryConfig, in the units of the model: 3 attempts, the initial
\* delay as the unit of time, multiplier 2, and the smallest non-zero jitter
DefaultRetryConfig ==
    [MaxAttempts |-> 3, InitialDelay |-> 1, MaxDelay |-> MaxDuration,
     Multiplier |-> 2, Jitter |-> 1]

RECURSIVE Pow(_, _)
Pow(b, e) == IF e = 0 THEN 1 ELSE b * Pow(b, e - 1)

\* Multiplier and Jitter are float64: besides numbers they can hold NaN, which
\* is written as a number outside every range in use and is only compared
\* through FLess and FGreater (every ordered comparison with NaN is false).
NaN == -1000
FLess(x, y) == x # NaN /\ y # NaN /\ x < y
FGreater(x, y) == x # NaN /\ y # NaN /\ x > y

\* RetryConfig.Validate returns nil: none of its five tests fires
Validate(c) ==
    /\ ~(c.MaxAttempts < 1)
    /\ ~(c.InitialDelay < 0)
    /\ ~(c.MaxDelay < 0)
    /\ ~FLess(c.Multiplier, 1)
    /\ ~(FLess(c.Jitter, 0) \/ FGreater(c.Jitter, JitterDen))

\* the policies Validate is given directly
Policies ==
    [MaxAttempts : 0..2, InitialDelay : (-1)..1, MaxDelay : (-1)..1,
     Multiplier : (0..MaxMultiplier) \cup {NaN},
     Jitter : ((-1)..(JitterDen + 1)) \cup {NaN}]

NoValidated == [config |-> DefaultRetryConfig, called |-> FALSE, ok |-> FALSE]

\* variant: the cap at MaxDelay is left out
uncappedDelay(c, a) == c.InitialDelay * Pow(c.Multiplier, a - 1)

\* the exponential value capped at MaxDelay (before jitter)
cappedDelay(c, a) ==
    LET d == c.InitialDelay * Pow(c.Multiplier, a - 1)
    IN  IF d > c.MaxDelay THEN c.MaxDelay ELSE d

\* RetryConfig.delay(attempt) when rand.Float64() returns r/RandDen.
\* delay - jitterRange + rand*2*jitterRange, truncated by time.Duration(...)
delay(c, a, r) ==
    IF a = 0 \/ c.InitialDelay = 0 THEN 0
    ELSE LET d == cappedDelay(c, a)
         IN  IF c.Jitter > 0
             THEN (d * JitterDen * RandDen - d * c.Jitter * RandDen
                   + r * 2 * d * c.Jitter) \div (JitterDen * RandDen)
             ELSE d

\* ---------------------------------------------------------------- configurations
\* Every Guard that New returns carries a RetryConfig accepted by Validate
\* (WithRetry validates, WithMaxRetries only accepts n >= 1, the default is valid).
RetryConfigs ==
    {c \in [MaxAttempts : 1..MaxAttemptsBound, InitialDelay : 0..MaxDuration,
            MaxDelay : 0..MaxDuration, Multiplier : 1..MaxMultiplier,
            Jitter : 0..JitterDen] : Validate(c)}

\* the policies Run is explored with: no delay at all, or delays of
\* MaxDuration without jitter or with full jitter
RunRetryConfigs ==
    {c \in RetryConfigs : /\ c.InitialDelay \in {0, MaxDuration}
                          /\ c.MaxDelay = MaxDuration
                          /\ c.Multiplier = MaxMultiplier
                          /\ c.Jitter \in (IF c.InitialDelay = 0 THEN {0}
                                           ELSE {0, JitterDen})}

DetectorNames == [i \in 1..MaxChecks |-> <<"det", i>>]
ValidatorNames == [i \in 1..MaxChecks |-> <<"val", i>>]
\* ---------------------------------------------------------------- Schema
\* A text is described by what encoding/json makes of it: whether its first
\* value is a well-formed JSON object, which fields that object has, and the
\* first non-whitespace byte (if any) that follows the value. A "fenced" text
\* is a well-formed object inside a markdown code block.
TargetFields == {"name"}        \* the fields of the struct the Schema was built from
UnknownFields == {"extra"}      \* fields the struct does not have
Trailings == {"none", "space", "other", "brace", "bracket"}
Texts ==
    [syntax : {"object", "malformed", "fenced"},
     fields : SUBSET (TargetFields \cup UnknownFields),
     trailing : Trailings]

Text(sy, f, t) == [syntax |-> sy, fields |-> f, trailing |-> t]

\* the texts the generation client returns in Run
Outputs ==
    {Text("object", TargetFields, "none"),
     Text("object", TargetFields \cup UnknownFields, "none"),
     Text("fenced", TargetFields, "none")}
NoOutput == Text("none", {}, "none")

\* JSONExtractor.Extract: the content of a markdown code block, any other text
\* as it is (surrounding whitespace is not part of a text here)
Extract(text) ==
    IF text.syntax = "fenced" THEN [text EXCEPT !.syntax = "object"] ELSE text

\* the validator that is a JSONExtractor around an inner validator
IsExtractor(v) == v = ValidatorNames[1]

\* the decoded struct: the target fields the text set
Parsed(o) == <<"parsed", o.fields \cap TargetFields>>
NoParsed == <<"nil">>

\* what NewSchema can be given
SchemaValues == {"nil", "non-pointer", "pointer to non-struct", "pointer to struct"}
NoSchema == [kind |-> "nil"]

\* NewSchema: only a pointer to a struct is accepted; strict by default
NewSchema(v) ==
    IF v = "pointer to struct"
    THEN [schema |-> [strict |-> TRUE], err |-> NoErr]
    ELSE [schema |-> NoSchema, err |-> [kind |-> "ErrInvalidSchema"]]

\* Schema.WithStrict: sets the flag of the receiver
WithStrict(s, strict) == [s EXCEPT !.strict = strict]

\* dec.Decode(ptr): nil, or the error of the decoder
DecodeErr(s, data) ==
    IF data.syntax # "object" THEN "syntax"
    ELSE IF s.strict /\ data.fields \cap UnknownFields # {} THEN "unknown field"
    ELSE "nil"

\* dec.More(): a next byte exists (after whitespace) and is neither ']' nor '}'
More(data) == data.trailing \notin {"none", "space", "brace", "bracket"}

\* variant: unknown fields are never rejected (DisallowUnknownFields left out)
UnmarshalLenient(s, data) ==
    IF data.syntax # "object"
    THEN [value |-> NoParsed, err |-> "failed to unmarshal JSON"]
    ELSE IF More(data)
    THEN [value |-> NoParsed, err |-> "trailing data after JSON"]
    ELSE [value |-> Parsed(data), err |-> "nil"]

\* Schema.Unmarshal
Unmarshal(s, data) ==
    IF DecodeErr(s, data) # "nil"
    THEN [value |-> NoParsed, err |-> "failed to unmarshal JSON"]
    ELSE IF More(data)
    THEN [value |-> NoParsed, err |-> "trailing data after JSON"]
    ELSE [value |-> Parsed(data), err |-> "nil"]

\* ---------------------------------------------------------------- Schema.UnmarshalInto
\* what UnmarshalInto can be given as destination, and the fields the
\* destination struct holds
DestKinds ==
    {"nil", "non-pointer", "pointer to other type", "pointer to same-shape type",
     "nil pointer to target", "pointer to target"}
Dests == [kind : DestKinds, fields : SUBSET TargetFields]
NoDest == [kind |-> "none", fields |-> {}]

\* variant: the destination type is compared by its fields, not by identity
UnmarshalIntoByShape(s, data, dest) ==
    IF dest.kind = "nil"
    THEN [err |-> "destination cannot be nil", dest |-> dest]
    ELSE IF dest.kind = "non-pointer"
    THEN [err |-> "destination must be a pointer", dest |-> dest]
    ELSE IF dest.kind = "pointer to other type"
    THEN [err |-> "destination type mismatch", dest |-> dest]
    ELSE IF data.syntax # "object" \/ dest.kind = "nil pointer to target"
    THEN [err |-> "failed to unmarshal JSON", dest |-> dest]
    ELSE LET filled == [dest EXCEPT !.fields = @ \cup (data.fields \cap TargetFields)]
         IN  IF DecodeErr(s, data) # "nil"
             THEN [err |-> "failed to unmarshal JSON", dest |-> filled]
             ELSE IF More(data)
             THEN [err |-> "trailing data after JSON", dest |-> filled]
             ELSE [err |-> "nil", dest |-> filled]

\* Schema.UnmarshalInto: the three checks of the destination, then the decode
\* into it (a syntax error or a nil pointer is found before anything is
\* stored; an unknown field or trailing data after the fields were stored)
UnmarshalInto(s, data, dest) ==
    IF dest.kind = "nil"
    THEN [err |-> "destination cannot be nil", dest |-> dest]
    ELSE IF dest.kind = "non-pointer"
    THEN [err |-> "destination must be a pointer", dest |-> dest]
    ELSE IF dest.kind \in {"pointer to other type", "pointer to same-shape type"}
    THEN [err |-> "destination type mismatch", dest |-> dest]
    ELSE IF data.syntax # "object" \/ dest.kind = "nil pointer to target"
    THEN [err |-> "failed to unmarshal JSON", dest |-> dest]
    ELSE LET filled == [dest EXCEPT !.fields = @ \cup (data.fields \cap TargetFields)]
         IN  IF DecodeErr(s, data) # "nil"
             THEN [err |-> "failed to unmarshal JSON", dest |-> filled]
             ELSE IF More(data)
             THEN [err |-> "trailing data after JSON", dest |-> filled]
             ELSE [err |-> "nil", dest |-> filled]

NoDecoded ==
    [op |-> "none", text |-> NoOutput, strict |-> TRUE,
     res |-> [value |-> NoParsed, err |-> "none"], dest |-> NoDest, after |-> NoDest]

NoDelay == [attempt |-> 0, rand |-> 0, result |-> 0]

\* what a member of an aggregate returns: nil or its own error
MemberReturns == {NoErr, Collaborator("plain"), Collaborator("canceled")}

NoAgg == [kind |-> "none", members |-> <<>>, i |-> 1, log |-> <<>>, done |-> FALSE,
          err |-> NoErr]

\* a slice the caller holds: not asked for yet
NoSlice == [fetched |-> FALSE, nil |-> TRUE, shared |-> FALSE, elems |-> <<>>,
            modified |-> FALSE, before |-> FALSE]

\* what the caller got from Guard.Detectors() and Guard.Validators(), and the
\* lists the Guard was built with
NoHeld == [cfgDet |-> <<>>, cfgVal |-> <<>>, det |-> NoSlice, val |-> NoSlice]

\* an Intent detector before Detect is called on it
NoIntent == [pc |-> "none", prompt |-> "", entryErr |-> "none", ctx |-> "none",
             calls |-> <<>>, answer |-> [kind |-> "none"], ret |-> NoErr]

\* ---------------------------------------------------------------- the checks
\* the detectors and validators of the packages detectors and validators that
\* look at ctx before anything else
BuiltinDetectors == {"keywords", "role", "domain", "intent"}
BuiltinValidators == {"json", "maxlength", "minlength", "lengthrange"}
IsBuiltin(check) == check[1] \in BuiltinDetectors \cup BuiltinValidators

\* variant: the built-in check does not look at ctx
BuiltinReturnsIgnoresContext(e) == {"nil", "plain"}

\* what a built-in check returns when ctx.Err() is e at its entry: ctx.Err()
\* when ctx is done, otherwise nil or its own error about the text
BuiltinReturns(e) == IF e # "none" THEN {e} ELSE {"nil", "plain"}

\* what a check returns: a check of the caller may return nil or any error
CheckReturns(check, e) ==
    IF IsBuiltin(check) THEN BuiltinReturns(e) ELSE {"nil"} \cup Causes

\* the prompts Run is called with
Prompts == {"prompt", "other prompt"}

InitHist ==
    [prompt |-> "prompt",     \* the prompt this Run was called with
     detArgs |-> {},          \* the inputs the detectors were given
     genArgs |-> {},          \* the prompts Client.Generate was given
     startErr |-> "none",     \* ctx.Err() when Run was called
     rejected |-> FALSE,      \* a detector returned an error
     genCalls |-> 0,          \* calls of Client.Generate
     backoffs |-> 0,          \* calls of RetryConfig.backoff
     waits |-> 0,             \* backoff calls that blocked in the select
     fails |-> 0,             \* attempts that ended in a wrapped failure
     last |-> NoErr,          \* wrapped failure of the latest failed attempt
     sigAtBackoff |-> FALSE,  \* ctx was done when the last backoff was called
     sigInWait |-> FALSE,     \* ctx became done while backoff was blocked
     genAfterSig |-> FALSE,   \* Generate was called for an attempt >= 1 although
                              \* ctx was done when that attempt's backoff was called
     genAfterWaitSig |-> FALSE, \* Generate was called after ctx became done in a wait
     strictSet |-> FALSE,     \* Schema.WithStrict was called on the Guard's schema
     mutated |-> FALSE]       \* the caller has written through its Result's Parsed

InitStage ==
    [detLog |-> <<>>,         \* names of the detectors invoked, in order
     ctxSkipped |-> FALSE,    \* a built-in check examined its text although ctx was done
     detFail |-> "none",      \* what the failing detector returned
     att |-> -1,              \* attempt index of the latest Generate call
     gen |-> "none",          \* outcome of that call: "none", "ok" or "fail"
     genFail |-> "none",      \* what the failing Generate call returned
     genOut |-> NoOutput,     \* the text that call returned
     valLog |-> <<>>,         \* names of the validators invoked in that attempt
     valArgs |-> {},          \* the texts those validators were given
     innerArgs |-> {},        \* the texts the JSONExtractor gave its inner validator
     decArg |-> NoOutput,     \* the text Schema.Unmarshal was given
     valFail |-> "none",      \* what the failing validator returned
     dec |-> "none"]          \* Schema.Unmarshal in that attempt: "none", "ok", "fail"

\* ---------------------------------------------------------------- New and its options
\* the sentinel errors of configuration
ConfigError(k) == [kind |-> k]

\* g := &Guard{retry: DefaultRetryConfig()}
NewGuard ==
    [client |-> "nil", detectors |-> <<>>, validators |-> <<>>, schema |-> NoSchema,
     retry |-> DefaultRetryConfig, timeout |-> 0, strictSchema |-> FALSE]
NoGuard == [client |-> "no guard"]

WithClient(g, client) ==
    IF client = "nil"
    THEN [g |-> g, err |-> ConfigError("ErrNilClient")]
    ELSE [g |-> [g EXCEPT !.client = client], err |-> NoErr]

WithSchema(g, v) ==
    LET r == NewSchema(v)
    IN  IF r.err # NoErr
        THEN [g |-> g, err |-> r.err]
        ELSE [g |-> [g EXCEPT !.schema = r.schema], err |-> NoErr]

\* a nil Detector or Validator
NilCheck == <<"nil", 0>>

\* variant: the new detectors are put in front of the ones already there
WithDetectorsPrepends(g, ds) ==
    IF \E i \in 1..Len(ds) : ds[i] = NilCheck
    THEN [g |-> g, err |-> ConfigError("ErrNilDetector")]
    ELSE [g |-> [g EXCEPT !.detectors = ds \o @], err |-> NoErr]

WithDetectors(g, ds) ==
    IF \E i \in 1..Len(ds) : ds[i] = NilCheck
    THEN [g |-> g, err |-> ConfigError("ErrNilDetector")]
    ELSE [g |-> [g EXCEPT !.detectors = @ \o ds], err |-> NoErr]

WithValidators(g, vs) ==
    IF \E i \in 1..Len(vs) : vs[i] = NilCheck
    THEN [g |-> g, err |-> ConfigError("ErrNilValidator")]
    ELSE [g |-> [g EXCEPT !.validators = @ \o vs], err |-> NoErr]

WithRetry(g, c) ==
    IF ~Validate(c)
    THEN [g |-> g, err |-> ConfigError("ErrInvalidRetryConfig")]
    ELSE [g |-> [g EXCEPT !.retry = c], err |-> NoErr]

\* variant: only a negative count is refused
WithMaxRetriesAcceptsZero(g, maxRetries) ==
    IF maxRetries < 0
    THEN [g |-> g, err |-> ConfigError("ErrInvalidRetryConfig")]
    ELSE [g |-> [g EXCEPT !.retry.MaxAttempts = maxRetries], err |-> NoErr]

\* variant: the other fields are set back to the defaults
WithMaxRetriesResetsPolicy(g, maxRetries) ==
    IF maxRetries < 1
    THEN [g |-> g, err |-> ConfigError("ErrInvalidRetryConfig")]
    ELSE [g |-> [g EXCEPT !.retry = [DefaultRetryConfig EXCEPT !.MaxAttempts = maxRetries]],
          err |-> NoErr]

WithMaxRetries(g, maxRetries) ==
    IF maxRetries < 1
    THEN [g |-> g, err |-> ConfigError("ErrInvalidRetryConfig")]
    ELSE [g |-> [g EXCEPT !.retry.MaxAttempts = maxRetries], err |-> NoErr]

WithTimeout(g, t) ==
    IF t < 0
    THEN [g |-> g, err |-> ConfigError("ErrInvalidTimeout")]
    ELSE [g |-> [g EXCEPT !.timeout = t], err |-> NoErr]

\* the schema is only touched when it exists already
WithStrictSchema(g, strict) ==
    [g |-> [g EXCEPT !.schema = IF @ # NoSchema THEN WithStrict(@, strict) ELSE @,
                     !.strictSchema = strict],
     err |-> NoErr]

Opt(op, arg) == [op |-> op, arg |-> arg]

\* the check lists an option is given: empty, one check, another check, two
\* checks, a nil, a check and a nil
CheckLists(names) ==
    {<<>>, <<names[1]>>, <<names[2]>>, <<names[2], names[1]>>, <<NilCheck>>,
     <<names[1], NilCheck>>}

\* a single attempt, no delays, multiplier 1, no jitter
NoRetryConfig ==
    [MaxAttempts |-> 1, InitialDelay |-> 0, MaxDelay |-> 0, Multiplier |-> 1, Jitter |-> 0]

\* the policies WithRetry is given: the default, the single-attempt policy, and
\* the default with one field out of range or NaN
RetryOptionConfigs ==
    {DefaultRetryConfig,
     NoRetryConfig,
     [DefaultRetryConfig EXCEPT !.Multiplier = NaN],
     [DefaultRetryConfig EXCEPT !.MaxAttempts = 0],
     [DefaultRetryConfig EXCEPT !.InitialDelay = -1],
     [DefaultRetryConfig EXCEPT !.MaxDelay = -1],
     [DefaultRetryConfig EXCEPT !.Multiplier = 0],
     [DefaultRetryConfig EXCEPT !.Jitter = -1],
     [DefaultRetryConfig EXCEPT !.Jitter = JitterDen + 1]}

\* the arguments each option is given
OptionArgs(op) ==
    CASE op = "WithClient" -> {"nil", "client"}
      [] op = "WithSchema" -> SchemaValues
      [] op = "WithDetectors" -> CheckLists(DetectorNames)
      [] op = "WithValidators" -> CheckLists(ValidatorNames)
      [] op = "WithRetry" -> RetryOptionConfigs
      [] op = "WithMaxRetries" -> (-1)..MaxAttemptsBound
      [] op = "WithTimeout" -> (-1)..1
      [] op = "WithStrictSchema" -> BOOLEAN

OptionNames ==
    {"WithClient", "WithSchema", "WithDetectors", "WithValidators", "WithRetry",
     "WithMaxRetries", "WithTimeout", "WithStrictSchema"}

\* opt(g)
ApplyOption(g, o) ==
    CASE o.op = "WithClient" -> WithClient(g, o.arg)
      [] o.op = "WithSchema" -> WithSchema(g, o.arg)
      [] o.op = "WithDetectors" -> WithDetectors(g, o.arg)
      [] o.op = "WithValidators" -> WithValidators(g, o.arg)
      [] o.op = "WithRetry" -> WithRetry(g, o.arg)
      [] o.op = "WithMaxRetries" -> WithMaxRetries(g, o.arg)
      [] o.op = "WithTimeout" -> WithTimeout(g, o.arg)
      [] o.op = "WithStrictSchema" -> WithStrictSchema(g, o.arg)

InitCons == [g |-> NewGuard, applied |-> <<>>, ret |-> [guard |-> NoGuard, err |-> NoErr]]

\* the local state of a Run that has just been called
InitFrame ==
    [pc |-> "detect", di |-> 1, vi |-> 1, attempt |-> 0, lastErr |-> NoErr,
     output |-> NoOutput, ret |-> [result |-> NoResult, err |-> NoErr],
     ctxErr |-> "none", timeoutElapsed |-> FALSE, hist |-> InitHist, stage |-> InitStage]

\* ---------------------------------------------------------------- Init
Init ==
    /\ retry \in RunRetryConfigs
    /\ timeout \in {0, 1}
    /\ \E n \in {0, MaxChecks} : detectors = SubSeq(DetectorNames, 1, n)
    /\ \E n \in 0..MaxChecks : validators = SubSeq(ValidatorNames, 1, n)
    /\ hasSchema \in BOOLEAN
    /\ schemaStrict \in (IF hasSchema THEN BOOLEAN ELSE {TRUE})
    /\ pc = "detect"
    /\ di = 1
    /\ vi = 1
    /\ attempt = 0
    /\ lastErr = NoErr
    /\ output = NoOutput
    /\ ret = [result |-> NoResult, err |-> NoErr]
    /\ ctxErr = "none"
    /\ timeoutElapsed = FALSE
    /\ hist = InitHist
    /\ stage = InitStage
    /\ dly = NoDelay
    /\ decoded = NoDecoded
    /\ cons = InitCons
    /\ other = InitFrame
    /\ validated = NoValidated
    /\ prevDecoded = NoDecoded
    /\ agg = NoAgg
    /\ intent = NoIntent
    /\ heap = <<>>
    /\ held = NoHeld

config == <<retry, timeout, detectors, validators, hasSchema, schemaStrict>>

\* return result, err
Return(res, e) ==
    /\ ret' = [result |-> res, err |-> e]
    /\ pc' = "done"

\* ---------------------------------------------------------------- the context
\* The caller's context is cancelled or reaches its own deadline.
ParentSignal(k) ==
    /\ pc \notin {"done", "pure"}
    /\ ctxErr = "none"
    /\ ctxErr' = k
    /\ pc' = IF pc = "waiting" THEN "aborting" ELSE pc
    /\ hist' = IF pc = "waiting" THEN [hist EXCEPT !.sigInWait = TRUE] ELSE hist
    /\ UNCHANGED <<config, di, vi, attempt, lastErr, output, ret, timeoutElapsed, stage, outside, heap>>

\* The timer armed by context.WithTimeout(ctx, g.timeout) expires (g.timeout > 0).
TimeoutElapse ==
    /\ pc \notin {"done", "pure"}
    /\ timeout > 0
    /\ ~timeoutElapsed
    /\ timeoutElapsed' = TRUE
    /\ ctxErr' = IF ctxErr = "none" THEN "deadline" ELSE ctxErr
    /\ pc' = IF pc = "waiting" /\ ctxErr = "none" THEN "aborting" ELSE pc
    /\ hist' = IF pc = "waiting" /\ ctxErr = "none"
               THEN [hist EXCEPT !.sigInWait = TRUE] ELSE hist
    /\ UNCHANGED <<config, di, vi, attempt, lastErr, output, ret, stage, outside, heap>>

\* ---------------------------------------------------------------- Run
\* variant: a detector's error is skipped instead of returned
RunDetectorSkipsError ==
    /\ pc = "detect"
    /\ IF di > Len(detectors)
       THEN /\ pc' = "loop"
            /\ UNCHANGED <<di, ret, hist>>
       ELSE \E r \in CheckReturns(detectors[di], ctxErr) :
               /\ di' = di + 1
               /\ hist' = [hist EXCEPT !.rejected = @ \/ r # "nil",
                                       !.detArgs = @ \cup {hist.prompt}]
               /\ UNCHANGED <<pc, ret>>
    /\ UNCHANGED <<config, vi, attempt, lastErr, output, ctxErr, timeoutElapsed,
                   stage, outside, heap>>

\* runDetectors: one iteration of the loop over g.detectors
RunDetector ==
    /\ pc = "detect"
    /\ IF di > Len(detectors)
       THEN /\ pc' = "loop"
            /\ UNCHANGED <<di, ret, hist, stage>>
       ELSE \E r \in CheckReturns(detectors[di], ctxErr) :
               LET skipped == IsBuiltin(detectors[di]) /\ ctxErr # "none" /\ r # ctxErr
               IN  IF r = "nil"
                   THEN /\ di' = di + 1             \* Detect returned nil
                        /\ stage' = [stage EXCEPT !.detLog = Append(@, detectors[di]),
                                                  !.ctxSkipped = @ \/ skipped]
                        /\ hist' = [hist EXCEPT !.detArgs = @ \cup {hist.prompt}]
                        /\ UNCHANGED <<pc, ret>>
                   ELSE /\ Return(NoResult, DetectionError(detectors[di], r))
                        /\ stage' = [stage EXCEPT !.detLog = Append(@, detectors[di]),
                                                  !.detFail = r,
                                                  !.ctxSkipped = @ \/ skipped]
                        /\ hist' = [hist EXCEPT !.rejected = TRUE,
                                                !.detArgs = @ \cup {hist.prompt}]
                        /\ UNCHANGED di
    /\ UNCHANGED <<config, vi, attempt, lastErr, output, ctxErr, timeoutElapsed, outside, heap>>

\* variant: lastErr keeps the first failure instead of the latest
FailAttemptKeepsFirst(e) ==
    /\ lastErr' = IF lastErr = NoErr THEN e ELSE lastErr
    /\ hist' = [hist EXCEPT !.fails = @ + 1, !.last = e]
    /\ IF ~shouldRetry(e)
       THEN /\ Return(NoResult, e)
            /\ UNCHANGED attempt
       ELSE /\ attempt' = attempt + 1
            /\ pc' = "loop"
            /\ UNCHANGED ret

\* the wrapped failure of an attempt: consult shouldRetry, then continue or return
FailAttempt(e) ==
    /\ lastErr' = e
    /\ hist' = [hist EXCEPT !.fails = @ + 1, !.last = e]
    /\ IF ~shouldRetry(e)
       THEN /\ Return(NoResult, e)
            /\ UNCHANGED attempt
       ELSE /\ attempt' = attempt + 1      \* continue
            /\ pc' = "loop"
            /\ UNCHANGED ret

\* variant: the loop runs once more
LoopCondInclusive(a, max) == a <= max

\* the loop condition attempt < g.retry.MaxAttempts
LoopCond(a, max) == a < max

\* variant: backoff is called at the end of every failed attempt, the last included
LoopHeadBacksOffFirst ==
    /\ pc = "loop"
    /\ IF ~LoopCond(attempt, retry.MaxAttempts)
       THEN /\ Return(NoResult, MaxRetriesError(retry.MaxAttempts, lastErr))
            /\ hist' = [hist EXCEPT !.backoffs = @ + 1]
       ELSE IF attempt = 0
       THEN /\ pc' = "generate"
            /\ UNCHANGED <<ret, hist>>
       ELSE \E r \in 0..(RandDen - 1) :
            LET d == delay(retry, attempt, r)
                h == [hist EXCEPT !.backoffs = @ + 1,
                                  !.sigAtBackoff = (ctxErr # "none"),
                                  !.sigInWait = FALSE]
            IN  /\ IF d = 0
                   THEN /\ pc' = "generate"         \* backoff returns nil at once
                        /\ hist' = h
                        /\ UNCHANGED ret
                   ELSE IF ctxErr # "none"
                   THEN \* select with ctx.Done() ready: ctx.Err() is returned, or,
                        \* when the timer has expired as well, either case is chosen
                        \/ /\ Return(NoResult, ContextError(ctxErr))
                           /\ hist' = h
                        \/ /\ pc' = "generate"
                           /\ hist' = h
                           /\ UNCHANGED ret
                   ELSE /\ pc' = "waiting"          \* select blocks
                        /\ hist' = [h EXCEPT !.waits = @ + 1]
                        /\ UNCHANGED ret
    /\ UNCHANGED <<config, di, vi, attempt, lastErr, output, ctxErr, timeoutElapsed,
                   stage, outside, heap>>

\* head of the retry loop: the loop condition, then backoff up to its select
LoopHead ==
    /\ pc = "loop"
    /\ IF ~LoopCond(attempt, retry.MaxAttempts)
       THEN /\ Return(NoResult, MaxRetriesError(retry.MaxAttempts, lastErr))
            /\ UNCHANGED hist
       ELSE IF attempt = 0
       THEN /\ pc' = "generate"
            /\ UNCHANGED <<ret, hist>>
       ELSE \E r \in 0..(RandDen - 1) :
            LET d == delay(retry, attempt, r)
                h == [hist EXCEPT !.backoffs = @ + 1,
                                  !.sigAtBackoff = (ctxErr # "none"),
                                  !.sigInWait = FALSE]
            IN  /\ IF d = 0
                   THEN /\ pc' = "generate"         \* backoff returns nil at once
                        /\ hist' = h
                        /\ UNCHANGED ret
                   ELSE IF ctxErr # "none"
                   THEN \* select with ctx.Done() ready: ctx.Err() is returned, or,
                        \* when the timer has expired as well, either case is chosen
                        \/ /\ Return(NoResult, ContextError(ctxErr))
                           /\ hist' = h
                        \/ /\ pc' = "generate"
                           /\ hist' = h
                           /\ UNCHANGED ret
                   ELSE /\ pc' = "waiting"          \* select blocks
                        /\ hist' = [h EXCEPT !.waits = @ + 1]
                        /\ UNCHANGED ret
    /\ UNCHANGED <<config, di, vi, attempt, lastErr, output, ctxErr, timeoutElapsed,
                   stage, outside, heap>>

\* variant: the timer of time.After never fires
BackoffTimerNeverFires ==
    /\ pc = "waiting"
    /\ pc' = "waiting"
    /\ UNCHANGED <<config, di, vi, attempt, lastErr, output, ret, ctxErr,
                   timeoutElapsed, hist, stage, outside, heap>>

\* backoff: case <-time.After(delay)
BackoffTimer ==
    /\ pc = "waiting"
    /\ pc' = "generate"
    /\ UNCHANGED <<config, di, vi, attempt, lastErr, output, ret, ctxErr,
                   timeoutElapsed, hist, stage, outside, heap>>

\* variant: the error of backoff is dropped and the loop goes on
BackoffAbortIgnored ==
    /\ pc = "aborting"
    /\ pc' = "generate"
    /\ UNCHANGED <<config, di, vi, attempt, lastErr, output, ret, ctxErr,
                   timeoutElapsed, hist, stage, outside, heap>>

\* backoff: case <-ctx.Done(): return ctx.Err(); Run returns it unwrapped
BackoffAbort ==
    /\ pc = "aborting"
    /\ Return(NoResult, ContextError(ctxErr))
    /\ UNCHANGED <<config, di, vi, attempt, lastErr, output, ctxErr,
                   timeoutElapsed, hist, stage, outside, heap>>

\* variant: a retry asks again with the failure appended to the prompt
GenerateCallReasks ==
    /\ pc = "generate"
    /\ pc' = "generating"
    /\ hist' = [hist EXCEPT !.genCalls = @ + 1,
                            !.genArgs = @ \cup {IF attempt > 0 THEN "prompt and failure"
                                                ELSE hist.prompt},
                            !.genAfterSig = @ \/ (attempt > 0 /\ hist.sigAtBackoff),
                            !.genAfterWaitSig = @ \/ (attempt > 0 /\ hist.sigInWait)]
    /\ stage' = [stage EXCEPT !.att = attempt, !.gen = "none", !.genFail = "none",
                              !.genOut = NoOutput, !.valLog = <<>>,
                              !.valArgs = {}, !.innerArgs = {}, !.decArg = NoOutput,
                              !.valFail = "none", !.dec = "none"]
    /\ UNCHANGED <<config, di, vi, attempt, lastErr, output, ret, ctxErr,
                   timeoutElapsed, outside, heap>>

\* variant: the detectors are run before each generation, retries included
GenerateCallAfterDetectors ==
    /\ pc = "generate"
    /\ pc' = "generating"
    /\ hist' = [hist EXCEPT !.genCalls = @ + 1,
                            !.genArgs = @ \cup {hist.prompt},
                            !.genAfterSig = @ \/ (attempt > 0 /\ hist.sigAtBackoff),
                            !.genAfterWaitSig = @ \/ (attempt > 0 /\ hist.sigInWait)]
    /\ stage' = [stage EXCEPT !.att = attempt, !.gen = "none", !.genFail = "none",
                              !.genOut = NoOutput, !.valLog = <<>>,
                              !.valArgs = {}, !.innerArgs = {}, !.decArg = NoOutput,
                              !.detLog = IF attempt > 0 THEN @ \o detectors ELSE @,
                              !.valFail = "none", !.dec = "none"]
    /\ UNCHANGED <<config, di, vi, attempt, lastErr, output, ret, ctxErr,
                   timeoutElapsed, outside, heap>>

\* output, err := g.client.Generate(ctx, prompt): the call
GenerateCall ==
    /\ pc = "generate"
    /\ pc' = "generating"
    /\ hist' = [hist EXCEPT !.genCalls = @ + 1,
                            !.genArgs = @ \cup {hist.prompt},
                            !.genAfterSig = @ \/ (attempt > 0 /\ hist.sigAtBackoff),
                            !.genAfterWaitSig = @ \/ (attempt > 0 /\ hist.sigInWait)]
    /\ stage' = [stage EXCEPT !.att = attempt, !.gen = "none", !.genFail = "none",
                              !.genOut = NoOutput, !.valLog = <<>>,
                              !.valArgs = {}, !.innerArgs = {}, !.decArg = NoOutput,
                              !.valFail = "none", !.dec = "none"]
    /\ UNCHANGED <<config, di, vi, attempt, lastErr, output, ret, ctxErr,
                   timeoutElapsed, outside, heap>>

\* variant: a failed generation is recorded but the attempt goes on to validation
GenerateReturnFallsThrough ==
    /\ pc = "generating"
    /\ \/ /\ \E o \in Outputs :
                /\ output' = o
                /\ stage' = [stage EXCEPT !.gen = "ok", !.genOut = o]
          /\ vi' = 1
          /\ pc' = "validate"
          /\ UNCHANGED <<attempt, lastErr, ret, hist>>
       \/ /\ \E c \in Causes :
                /\ lastErr' = GenerationError(c)
                /\ hist' = [hist EXCEPT !.fails = @ + 1, !.last = GenerationError(c)]
          /\ vi' = 1
          /\ pc' = "validate"
          /\ stage' = [stage EXCEPT !.gen = "fail"]
          /\ UNCHANGED <<attempt, ret, output>>
    /\ UNCHANGED <<config, di, ctxErr, timeoutElapsed, outside, heap>>

\* client.Generate returns: an output, or an error wrapped in GenerationError
GenerateReturn ==
    /\ pc = "generating"
    /\ \/ /\ \E o \in Outputs :
                /\ output' = o
                /\ stage' = [stage EXCEPT !.gen = "ok", !.genOut = o]
          /\ vi' = 1
          /\ pc' = "validate"
          /\ UNCHANGED <<attempt, lastErr, ret, hist>>
       \/ /\ \E c \in Causes :
                /\ FailAttempt(GenerationError(c))
                /\ stage' = [stage EXCEPT !.gen = "fail", !.genFail = c]
          /\ UNCHANGED <<vi, output>>
    /\ UNCHANGED <<config, di, ctxErr, timeoutElapsed, outside, heap>>

\* variant: the ValidationError names the first validator, not the failing one
RunValidatorNamesFirst ==
    /\ pc = "validate"
    /\ IF vi > Len(validators)
       THEN /\ pc' = "decode"
            /\ UNCHANGED <<vi, attempt, lastErr, ret, hist, stage>>
       ELSE \E r \in CheckReturns(validators[vi], ctxErr) :
               LET skipped == IsBuiltin(validators[vi]) /\ ctxErr # "none" /\ r # ctxErr
                   called == [stage EXCEPT !.valLog = Append(@, validators[vi]),
                                           !.valArgs = @ \cup {output},
                                           !.ctxSkipped = @ \/ skipped,
                                           !.innerArgs =
                                               IF IsExtractor(validators[vi])
                                               THEN @ \cup {Extract(output)} ELSE @]
               IN  IF r = "nil"
                   THEN /\ vi' = vi + 1             \* Validate returned nil
                        /\ stage' = called
                        /\ UNCHANGED <<pc, attempt, lastErr, ret, hist>>
                   ELSE /\ FailAttempt(ValidationError(validators[1], r))
                        /\ stage' = [called EXCEPT !.valFail = r]
                        /\ UNCHANGED vi
    /\ UNCHANGED <<config, di, output, ctxErr, timeoutElapsed, outside, heap>>

\* runValidators: one iteration of the loop over g.validators
RunValidator ==
    /\ pc = "validate"
    /\ IF vi > Len(validators)
       THEN /\ pc' = "decode"
            /\ UNCHANGED <<vi, attempt, lastErr, ret, hist, stage>>
       ELSE \E r \in CheckReturns(validators[vi], ctxErr) :
               LET skipped == IsBuiltin(validators[vi]) /\ ctxErr # "none" /\ r # ctxErr
                   called == [stage EXCEPT !.valLog = Append(@, validators[vi]),
                                           !.valArgs = @ \cup {output},
                                           !.ctxSkipped = @ \/ skipped,
                                           !.innerArgs =
                                               IF IsExtractor(validators[vi])
                                               THEN @ \cup {Extract(output)} ELSE @]
               IN  IF r = "nil"
                   THEN /\ vi' = vi + 1             \* Validate returned nil
                        /\ stage' = called
                        /\ UNCHANGED <<pc, attempt, lastErr, ret, hist>>
                   ELSE /\ FailAttempt(ValidationError(validators[vi], r))
                        /\ stage' = [called EXCEPT !.valFail = r]
                        /\ UNCHANGED vi
    /\ UNCHANGED <<config, di, output, ctxErr, timeoutElapsed, outside, heap>>

\* variant: the Schema keeps one instance and hands it out at every call
reflectNewShared(h) == 1

\* reflect.New(s.targetType): a pointer to a new zero value, an address not in
\* use. An instance whose decoding fails is returned to nobody and is left out.
reflectNew(h) == Len(h) + 1

\* the instance at address p is given the decoded value
Store(h, p, v) == [i \in 1..(IF p > Len(h) THEN p ELSE Len(h)) |-> IF i = p THEN v ELSE h[i]]

\* variant: the success return passes lastErr on
SuccessKeepsLastErr(parsed) ==
    /\ Return(Result(output, parsed, attempt), lastErr)
    /\ UNCHANGED <<attempt, lastErr, hist>>

\* variant: the Result carries the text the JSONExtractor extracted
SuccessReturnsExtracted(parsed) ==
    /\ Return(Result(Extract(output), parsed, attempt), NoErr)
    /\ UNCHANGED <<attempt, lastErr, hist>>

\* return &Result{...}, nil
Success(parsed) ==
    /\ Return(Result(output, parsed, attempt), NoErr)
    /\ UNCHANGED <<attempt, lastErr, hist>>

\* variant: parseSchema decodes whether or not a schema is configured
DecodeWithoutSchemaCheck ==
    /\ pc = "decode"
    /\ LET ptr == reflectNew(heap)
           u == Unmarshal([strict |-> schemaStrict], output)
       IN  IF u.err = "nil"
           THEN /\ Success(<<"ptr", ptr>>)
                /\ heap' = Store(heap, ptr, u.value)
                /\ stage' = [stage EXCEPT !.dec = "ok", !.decArg = output]
           ELSE /\ FailAttempt(SchemaError("plain"))
                /\ stage' = [stage EXCEPT !.dec = "fail", !.decArg = output]
                /\ UNCHANGED heap
    /\ UNCHANGED <<config, di, vi, output, ctxErr, timeoutElapsed, outside>>

\* parseSchema and the success return
Decode ==
    /\ pc = "decode"
    /\ IF ~hasSchema
       THEN /\ Success(NoParsed)                     \* parseSchema: return nil, nil
            /\ UNCHANGED <<stage, heap>>
       ELSE LET ptr == reflectNew(heap)              \* g.schema.Unmarshal
                u == Unmarshal([strict |-> schemaStrict], output)
            IN  IF u.err = "nil"
                THEN /\ Success(<<"ptr", ptr>>)
                     /\ heap' = Store(heap, ptr, u.value)
                     /\ stage' = [stage EXCEPT !.dec = "ok", !.decArg = output]
                ELSE /\ FailAttempt(SchemaError("plain"))
                     /\ stage' = [stage EXCEPT !.dec = "fail", !.decArg = output]
                     /\ UNCHANGED heap
    /\ UNCHANGED <<config, di, vi, output, ctxErr, timeoutElapsed, outside>>

Next ==
    \/ \E k \in {"canceled", "deadline"} : ParentSignal(k)
    \/ TimeoutElapse
    \/ RunDetector
    \/ LoopHead
    \/ BackoffTimer
    \/ BackoffAbort
    \/ GenerateCall
    \/ GenerateReturn
    \/ RunValidator
    \/ Decode

Spec == Init /\ [][Next]_vars

\* ---------------------------------------------------------------- Run with built-in checks
\* A Guard whose detectors are taken from a custom detector and a Keywords
\* detector and whose validator, if any, is a custom one or a MaxLength; Run is
\* called with a context that is live or already cancelled.
BuiltinInit ==
    /\ retry \in {c \in RunRetryConfigs : c.InitialDelay = 0}
    /\ timeout = 0
    /\ \E n \in 0..MaxChecks :
          detectors \in [1..n -> {DetectorNames[1], <<"keywords", 1>>}]
    /\ validators \in {<<>>, <<ValidatorNames[1]>>, <<<<"maxlength", 1>>>>}
    /\ hasSchema = FALSE
    /\ schemaStrict = TRUE
    /\ pc = "detect"
    /\ di = 1
    /\ vi = 1
    /\ attempt = 0
    /\ lastErr = NoErr
    /\ output = NoOutput
    /\ ret = [result |-> NoResult, err |-> NoErr]
    /\ ctxErr \in {"none", "canceled"}
    /\ timeoutElapsed = FALSE
    /\ hist = [InitHist EXCEPT !.startErr = ctxErr]
    /\ stage = InitStage
    /\ dly = NoDelay
    /\ decoded = NoDecoded
    /\ cons = InitCons
    /\ other = InitFrame
    /\ validated = NoValidated
    /\ prevDecoded = NoDecoded
    /\ agg = NoAgg
    /\ intent = NoIntent
    /\ heap = <<>>
    /\ held = NoHeld

BuiltinNext ==
    \/ \E k \in {"canceled", "deadline"} : ParentSignal(k)
    \/ RunDetector
    \/ LoopHead
    \/ GenerateCall
    \/ GenerateReturn
    \/ RunValidator
    \/ Decode

BuiltinSpec == BuiltinInit /\ [][BuiltinNext]_vars

\* ---------------------------------------------------------------- Run under fairness
\* The steps of the goroutine that executes Run: it keeps running, every
\* collaborator it calls returns, and the timer of time.After fires. The
\* signals of the context are not obliged to happen.
RunStep ==
    \/ RunDetector
    \/ LoopHead
    \/ BackoffTimer
    \/ BackoffAbort
    \/ GenerateCall
    \/ GenerateReturn
    \/ RunValidator
    \/ Decode

\* a Guard with a timeout, a schema and MaxChecks validators
LiveInit ==
    /\ Init
    /\ timeout = 1
    /\ hasSchema
    /\ Len(validators) = MaxChecks

LiveSpec == LiveInit /\ [][Next]_vars /\ WF_vars(RunStep)

\* ---------------------------------------------------------------- the Guard's Schema
\* A Guard built by New(WithClient(c), WithSchema(v)) with the default schema
\* strictness and a policy without delays, its Run under a background context,
\* and calls on the *Schema that Guard.Schema() hands out.
SchemaInit ==
    /\ retry \in {c \in RunRetryConfigs : c.InitialDelay = 0 /\ c.Jitter = 0}
    /\ timeout = 0
    /\ detectors = <<>>
    /\ validators = <<>>
    /\ hasSchema = TRUE
    /\ schemaStrict = NewSchema("pointer to struct").schema.strict
    /\ pc = "detect"
    /\ di = 1
    /\ vi = 1
    /\ attempt = 0
    /\ lastErr = NoErr
    /\ output = NoOutput
    /\ ret = [result |-> NoResult, err |-> NoErr]
    /\ ctxErr = "none"
    /\ timeoutElapsed = FALSE
    /\ hist = InitHist
    /\ stage = InitStage
    /\ dly = NoDelay
    /\ decoded = NoDecoded
    /\ cons = InitCons
    /\ other = InitFrame
    /\ validated = NoValidated
    /\ prevDecoded = NoDecoded
    /\ agg = NoAgg
    /\ intent = NoIntent
    /\ heap = <<>>
    /\ held = NoHeld

\* Guard.Schema(): the Guard's own *Schema
GuardSchema == [strict |-> schemaStrict]

\* g.Schema().WithStrict(strict)
SchemaWithStrict(strict) ==
    /\ hasSchema
    /\ schemaStrict' = WithStrict(GuardSchema, strict).strict
    /\ hist' = [hist EXCEPT !.strictSet = TRUE]
    /\ UNCHANGED <<retry, timeout, detectors, validators, hasSchema, pc, di, vi, attempt,
                   lastErr, output, ret, ctxErr, timeoutElapsed, stage, outside, heap>>

\* g.Schema().Unmarshal(data)
SchemaUnmarshal ==
    /\ hasSchema
    /\ \E data \in Texts :
          decoded' = [op |-> "Unmarshal", text |-> data, strict |-> schemaStrict,
                      res |-> Unmarshal(GuardSchema, data),
                      dest |-> NoDest, after |-> NoDest]
    /\ UNCHANGED <<config, pc, di, vi, attempt, lastErr, output, ret, ctxErr,
                   timeoutElapsed, hist, stage, dly, cons, other, validated, prevDecoded,
                   agg, intent, heap, held>>

SchemaNext ==
    \/ \E strict \in BOOLEAN : SchemaWithStrict(strict)
    \/ SchemaUnmarshal
    \/ RunDetector
    \/ LoopHead
    \/ GenerateCall
    \/ GenerateReturn
    \/ RunValidator
    \/ Decode

SchemaSpec == SchemaInit /\ [][SchemaNext]_vars

\* ---------------------------------------------------------------- two concurrent runs
\* Two goroutines call Run on one Guard, each with a background context. The
\* variables pc .. stage hold the locals of the goroutine that is scheduled,
\* other holds those of the goroutine that is not.
ConcInit ==
    /\ retry \in {c \in RunRetryConfigs : c.InitialDelay = 0 /\ c.Jitter = 0}
    /\ timeout = 0
    /\ \E n \in 0..1 : detectors = SubSeq(DetectorNames, 1, n)
    /\ \E n \in 0..1 : validators = SubSeq(ValidatorNames, 1, n)
    /\ hasSchema = TRUE
    /\ schemaStrict = TRUE
    /\ pc = "detect"
    /\ di = 1
    /\ vi = 1
    /\ attempt = 0
    /\ lastErr = NoErr
    /\ output = NoOutput
    /\ ret = [result |-> NoResult, err |-> NoErr]
    /\ ctxErr = "none"
    /\ timeoutElapsed = FALSE
    /\ hist = InitHist
    /\ stage = InitStage
    /\ dly = NoDelay
    /\ decoded = NoDecoded
    /\ cons = InitCons
    /\ other = [InitFrame EXCEPT !.hist.prompt = "other prompt"]
    /\ validated = NoValidated
    /\ prevDecoded = NoDecoded
    /\ agg = NoAgg
    /\ intent = NoIntent
    /\ heap = <<>>
    /\ held = NoHeld

\* the locals of the scheduled Run
Frame ==
    [pc |-> pc, di |-> di, vi |-> vi, attempt |-> attempt, lastErr |-> lastErr,
     output |-> output, ret |-> ret, ctxErr |-> ctxErr,
     timeoutElapsed |-> timeoutElapsed, hist |-> hist, stage |-> stage]

\* variant: the attempt counter is a field of the Guard, shared by the runs
SwitchSharedAttempt ==
    /\ other' = Frame
    /\ pc' = other.pc
    /\ di' = other.di
    /\ vi' = other.vi
    /\ lastErr' = other.lastErr
    /\ output' = other.output
    /\ ret' = other.ret
    /\ ctxErr' = other.ctxErr
    /\ timeoutElapsed' = other.timeoutElapsed
    /\ hist' = other.hist
    /\ stage' = other.stage
    /\ UNCHANGED <<config, attempt, dly, decoded, cons, validated, prevDecoded, agg, intent,
            heap, held>>

\* the scheduler runs the other goroutine: every local of Run (ctx, lastErr,
\* attempt, output, ...) belongs to the call
Switch ==
    /\ other' = Frame
    /\ pc' = other.pc
    /\ di' = other.di
    /\ vi' = other.vi
    /\ attempt' = other.attempt
    /\ lastErr' = other.lastErr
    /\ output' = other.output
    /\ ret' = other.ret
    /\ ctxErr' = other.ctxErr
    /\ timeoutElapsed' = other.timeoutElapsed
    /\ hist' = other.hist
    /\ stage' = other.stage
    /\ UNCHANGED <<config, dly, decoded, cons, validated, prevDecoded, agg, intent, heap,
            held>>

ConcNext ==
    \/ Switch
    \/ RunDetector
    \/ LoopHead
    \/ GenerateCall
    \/ GenerateReturn
    \/ RunValidator
    \/ Decode

ConcSpec == ConcInit /\ [][ConcNext]_vars

\* ---------------------------------------------------------------- the Parsed values of two runs
\* two runs on a Guard with a schema and no checks; the caller of a run writes
\* through the pointer in its Result
ParsedInit ==
    /\ ConcInit
    /\ detectors = <<>>
    /\ validators = <<>>

\* what a caller's write makes of the instance
Mutate(v) == <<"mutated", v[2]>>

\* the caller of the scheduled run assigns to a field of *result.Parsed
MutateParsed ==
    /\ pc = "done"
    /\ ret.result # NoResult
    /\ ret.result.Parsed # NoParsed
    /\ ~hist.mutated
    /\ heap' = [heap EXCEPT ![ret.result.Parsed[2]] = Mutate(@)]
    /\ hist' = [hist EXCEPT !.mutated = TRUE]
    /\ UNCHANGED <<config, pc, di, vi, attempt, lastErr, output, ret, ctxErr,
                   timeoutElapsed, stage, outside>>

ParsedNext ==
    \/ Switch
    \/ RunDetector
    \/ LoopHead
    \/ GenerateCall
    \/ GenerateReturn
    \/ RunValidator
    \/ Decode
    \/ MutateParsed

ParsedSpec == ParsedInit /\ [][ParsedNext]_vars

\* ---------------------------------------------------------------- the accessors
\* variant: the Guard's own slice is returned
AccessorReturnsField(list) ==
    [NoSlice EXCEPT !.fetched = TRUE, !.nil = (list = <<>>), !.shared = TRUE,
                    !.elems = list]

\* Guard.Detectors / Guard.Validators: nil when the field is nil, otherwise a
\* new slice of the same length with the elements copied into it. The field
\* is nil exactly when no check was appended to it.
Accessor(list) ==
    IF list = <<>>
    THEN [NoSlice EXCEPT !.fetched = TRUE]
    ELSE [NoSlice EXCEPT !.fetched = TRUE, !.nil = FALSE, !.elems = list]

\* a Guard with no or MaxChecks detectors and validators, a single attempt and
\* no schema; Run has been called, the caller has not used the accessors yet
AccessorInit ==
    /\ retry = NoRetryConfig
    /\ timeout = 0
    /\ \E n \in {0, MaxChecks} : detectors = SubSeq(DetectorNames, 1, n)
    /\ \E n \in {0, MaxChecks} : validators = SubSeq(ValidatorNames, 1, n)
    /\ hasSchema = FALSE
    /\ schemaStrict = TRUE
    /\ pc = "detect"
    /\ di = 1
    /\ vi = 1
    /\ attempt = 0
    /\ lastErr = NoErr
    /\ output = NoOutput
    /\ ret = [result |-> NoResult, err |-> NoErr]
    /\ ctxErr = "none"
    /\ timeoutElapsed = FALSE
    /\ hist = InitHist
    /\ stage = InitStage
    /\ dly = NoDelay
    /\ decoded = NoDecoded
    /\ cons = InitCons
    /\ other = InitFrame
    /\ validated = NoValidated
    /\ prevDecoded = NoDecoded
    /\ agg = NoAgg
    /\ intent = NoIntent
    /\ heap = <<>>
    /\ held = [NoHeld EXCEPT !.cfgDet = detectors, !.cfgVal = validators]

\* the caller calls g.Detectors()
GuardDetectors ==
    /\ ~held.det.fetched
    /\ held' = [held EXCEPT !.det = Accessor(detectors)]
    /\ UNCHANGED <<config, pc, di, vi, attempt, lastErr, output, ret, ctxErr,
                   timeoutElapsed, hist, stage, dly, decoded, cons, other, validated,
                   prevDecoded, agg, intent, heap>>

\* the caller calls g.Validators()
GuardValidators ==
    /\ ~held.val.fetched
    /\ held' = [held EXCEPT !.val = Accessor(validators)]
    /\ UNCHANGED <<config, pc, di, vi, attempt, lastErr, output, ret, ctxErr,
                   timeoutElapsed, hist, stage, dly, decoded, cons, other, validated,
                   prevDecoded, agg, intent, heap>>

\* a check of the caller's that the Guard was not given
Foreign(kind) == <<kind, 0>>

\* the slices a caller makes of a slice by replacing one element or by
\* exchanging the first two
Rearranged(l, kind) ==
    {[l EXCEPT ![i] = Foreign(kind)] : i \in 1..Len(l)}
        \cup (IF Len(l) >= 2 THEN {[l EXCEPT ![1] = l[2], ![2] = l[1]]} ELSE {})

\* the caller assigns to elements of a slice it got from an accessor; a slice
\* that shares the Guard's backing array changes the Guard's list with it
ModifyReturned ==
    /\ \/ /\ held.det.fetched /\ ~held.det.modified
          /\ \E l \in Rearranged(held.det.elems, "det") :
                /\ held' = [held EXCEPT !.det.elems = l, !.det.modified = TRUE,
                                        !.det.before = (pc = "detect" /\ di = 1)]
                /\ detectors' = IF held.det.shared THEN l ELSE detectors
          /\ UNCHANGED validators
       \/ /\ held.val.fetched /\ ~held.val.modified
          /\ \E l \in Rearranged(held.val.elems, "val") :
                /\ held' = [held EXCEPT !.val.elems = l, !.val.modified = TRUE,
                                        !.val.before = (pc = "detect" /\ di = 1)]
                /\ validators' = IF held.val.shared THEN l ELSE validators
          /\ UNCHANGED detectors
    /\ UNCHANGED <<retry, timeout, hasSchema, schemaStrict, pc, di, vi, attempt, lastErr, output, ret, ctxErr,
                   timeoutElapsed, hist, stage, dly, decoded, cons, other, validated,
                   prevDecoded, agg, intent, heap>>

AccessorNext ==
    \/ GuardDetectors
    \/ GuardValidators
    \/ ModifyReturned
    \/ RunDetector
    \/ LoopHead
    \/ GenerateCall
    \/ GenerateReturn
    \/ RunValidator
    \/ Decode

AccessorSpec == AccessorInit /\ [][AccessorNext]_vars

\* ---------------------------------------------------------------- New alone
NewInit ==
    /\ retry = DefaultRetryConfig
    /\ timeout = 0
    /\ detectors = <<>>
    /\ validators = <<>>
    /\ hasSchema = FALSE
    /\ schemaStrict = TRUE
    /\ pc = "new"
    /\ di = 1
    /\ vi = 1
    /\ attempt = 0
    /\ lastErr = NoErr
    /\ output = NoOutput
    /\ ret = [result |-> NoResult, err |-> NoErr]
    /\ ctxErr = "none"
    /\ timeoutElapsed = FALSE
    /\ hist = InitHist
    /\ stage = InitStage
    /\ dly = NoDelay
    /\ decoded = NoDecoded
    /\ cons = InitCons
    /\ other = InitFrame
    /\ validated = NoValidated
    /\ prevDecoded = NoDecoded
    /\ agg = NoAgg
    /\ intent = NoIntent
    /\ heap = <<>>
    /\ held = NoHeld

\* variant: a failing option is passed over and the loop goes on
NewOptionContinues ==
    /\ pc = "new"
    /\ Len(cons.applied) < MaxOpts
    /\ \E op \in OptionNames : \E arg \in OptionArgs(op) :
          LET o == Opt(op, arg)
              r == ApplyOption(cons.g, o)
          IN  /\ cons' = [cons EXCEPT !.applied = Append(@, o), !.g = r.g]
              /\ UNCHANGED pc
    /\ UNCHANGED <<config, di, vi, attempt, lastErr, output, ret, ctxErr,
                   timeoutElapsed, hist, stage, dly, decoded, other, validated,
                   prevDecoded, agg, intent, heap, held>>

\* New: one iteration of the loop over opts
NewOption ==
    /\ pc = "new"
    /\ Len(cons.applied) < MaxOpts
    /\ \E op \in OptionNames : \E arg \in OptionArgs(op) :
          LET o == Opt(op, arg)
              r == ApplyOption(cons.g, o)
          IN  IF r.err # NoErr
              THEN /\ cons' = [cons EXCEPT !.applied = Append(@, o),
                                           !.ret = [guard |-> NoGuard, err |-> r.err]]
                   /\ pc' = "constructed"
              ELSE /\ cons' = [cons EXCEPT !.applied = Append(@, o), !.g = r.g]
                   /\ UNCHANGED pc
    /\ UNCHANGED <<config, di, vi, attempt, lastErr, output, ret, ctxErr,
                   timeoutElapsed, hist, stage, dly, decoded, other, validated,
                   prevDecoded, agg, intent, heap, held>>

\* New: after the loop, the client check and the return
NewReturn ==
    /\ pc = "new"
    /\ pc' = "constructed"
    /\ cons' = [cons EXCEPT !.ret =
                  IF cons.g.client = "nil"
                  THEN [guard |-> NoGuard, err |-> ConfigError("ErrNoClient")]
                  ELSE [guard |-> cons.g, err |-> NoErr]]
    /\ UNCHANGED <<config, di, vi, attempt, lastErr, output, ret, ctxErr,
                   timeoutElapsed, hist, stage, dly, decoded, other, validated,
                   prevDecoded, agg, intent, heap, held>>

NewNext ==
    \/ NewOption
    \/ NewReturn

NewSpec == NewInit /\ [][NewNext]_vars

\* ---------------------------------------------------------------- New, then Run
\* New as a function of its options: the loop over opts, the client check and
\* the return
RECURSIVE ApplyOptions(_, _)
ApplyOptions(g, opts) ==
    IF opts = <<>>
    THEN [g |-> g, err |-> NoErr]
    ELSE LET r == ApplyOption(g, Head(opts))
         IN  IF r.err # NoErr THEN r ELSE ApplyOptions(r.g, Tail(opts))

New(opts) ==
    LET r == ApplyOptions(NewGuard, opts)
    IN  IF r.err # NoErr
        THEN [guard |-> NoGuard, err |-> r.err]
        ELSE IF r.g.client = "nil"
        THEN [guard |-> NoGuard, err |-> ConfigError("ErrNoClient")]
        ELSE [guard |-> r.g, err |-> NoErr]

\* the WithDetectors and WithValidators options without a nil argument
ListOptions ==
    {Opt("WithDetectors", l) :
        l \in {c \in CheckLists(DetectorNames) : \A i \in 1..Len(c) : c[i] # NilCheck}}
    \cup
    {Opt("WithValidators", l) :
        l \in {c \in CheckLists(ValidatorNames) : \A i \in 1..Len(c) : c[i] # NilCheck}}

\* New(WithClient(client), WithMaxRetries(n), ...) with n up to 2, followed by
\* up to MaxListOpts list options
BuiltOptions ==
    UNION {{<<Opt("WithClient", "client"), Opt("WithMaxRetries", n)>> \o l :
               l \in UNION {[1..k -> ListOptions] : k \in 0..MaxListOpts}} :
           n \in 0..2}

\* a Guard built by New from such options, and Run called on it
BuiltInit ==
    /\ \E opts \in BuiltOptions :
          LET r == New(opts)
          IN  /\ r.err = NoErr
              /\ cons = [g |-> r.guard, applied |-> opts, ret |-> r]
              /\ retry = r.guard.retry
              /\ timeout = r.guard.timeout
              /\ detectors = r.guard.detectors
              /\ validators = r.guard.validators
              /\ hasSchema = (r.guard.schema # NoSchema)
    /\ schemaStrict = TRUE
    /\ pc = "detect"
    /\ di = 1
    /\ vi = 1
    /\ attempt = 0
    /\ lastErr = NoErr
    /\ output = NoOutput
    /\ ret = [result |-> NoResult, err |-> NoErr]
    /\ ctxErr = "none"
    /\ timeoutElapsed = FALSE
    /\ hist = InitHist
    /\ stage = InitStage
    /\ dly = NoDelay
    /\ decoded = NoDecoded
    /\ other = InitFrame
    /\ validated = NoValidated
    /\ prevDecoded = NoDecoded
    /\ agg = NoAgg
    /\ intent = NoIntent
    /\ heap = <<>>
    /\ held = NoHeld

BuiltNext ==
    \/ RunDetector
    \/ LoopHead
    \/ BackoffTimer
    \/ GenerateCall
    \/ GenerateReturn
    \/ RunValidator
    \/ Decode

BuiltSpec == BuiltInit /\ [][BuiltNext]_vars

\* ---------------------------------------------------------------- Detectors and Validators
\* a Detectors or Validators value with up to MaxMembers members, and
\* Detect / Validate called on it
AggInit ==
    /\ retry = DefaultRetryConfig
    /\ timeout = 0
    /\ detectors = <<>>
    /\ validators = <<>>
    /\ hasSchema = FALSE
    /\ schemaStrict = TRUE
    /\ pc = "pure"
    /\ di = 1
    /\ vi = 1
    /\ attempt = 0
    /\ lastErr = NoErr
    /\ output = NoOutput
    /\ ret = [result |-> NoResult, err |-> NoErr]
    /\ ctxErr = "none"
    /\ timeoutElapsed = FALSE
    /\ hist = InitHist
    /\ stage = InitStage
    /\ dly = NoDelay
    /\ decoded = NoDecoded
    /\ cons = InitCons
    /\ other = InitFrame
    /\ validated = NoValidated
    /\ prevDecoded = NoDecoded
    /\ \E k \in {"Detectors", "Validators"}, n \in 0..MaxMembers :
          \E m \in [1..n -> MemberReturns] :
             agg = [NoAgg EXCEPT !.kind = k, !.members = m]
    /\ intent = NoIntent
    /\ heap = <<>>
    /\ held = NoHeld

\* variant: the member's error is wrapped before it is returned
AggregateStepWraps(k) ==
    /\ agg.kind = k
    /\ ~agg.done
    /\ agg' = IF agg.i > Len(agg.members)
              THEN [agg EXCEPT !.done = TRUE]
              ELSE IF agg.members[agg.i] # NoErr
              THEN [agg EXCEPT !.log = Append(@, agg.i), !.done = TRUE,
                               !.err = DetectionError(<<"det", agg.i>>,
                                                      agg.members[agg.i].cause)]
              ELSE [agg EXCEPT !.log = Append(@, agg.i), !.i = @ + 1]
    /\ UNCHANGED <<config, pc, di, vi, attempt, lastErr, output, ret, ctxErr,
                   timeoutElapsed, hist, stage, dly, decoded, cons, other, validated,
                   prevDecoded, intent, heap, held>>

\* Detectors.Detect (k = "Detectors") and Validators.Validate (k = "Validators"),
\* one iteration of the loop over the members: the member is called, its error
\* is returned as it is; after the last member nil is returned
AggregateStep(k) ==
    /\ agg.kind = k
    /\ ~agg.done
    /\ agg' = IF agg.i > Len(agg.members)
              THEN [agg EXCEPT !.done = TRUE]
              ELSE IF agg.members[agg.i] # NoErr
              THEN [agg EXCEPT !.log = Append(@, agg.i), !.done = TRUE,
                               !.err = agg.members[agg.i]]
              ELSE [agg EXCEPT !.log = Append(@, agg.i), !.i = @ + 1]
    /\ UNCHANGED <<config, pc, di, vi, attempt, lastErr, output, ret, ctxErr,
                   timeoutElapsed, hist, stage, dly, decoded, cons, other, validated,
                   prevDecoded, intent, heap, held>>

AggNext == \E k \in {"Detectors", "Validators"} : AggregateStep(k)

AggSpec == AggInit /\ [][AggNext]_vars

\* ---------------------------------------------------------------- the Intent detector
\* the texts a classifier answers with: a body, and what stands around it
\*   "raw"        the body alone
\*   "jsonfence"  ```json <body> ```
\*   "fence"      ``` <newline> <body> ```
\*   "openfence"  ```json <body>, the closing fence missing
\*   "prose"      words before and after the body
Wraps == {"raw", "jsonfence", "fence", "openfence", "prose"}

\*   "true"       {"on_topic": true, "reason": "r"}
\*   "false"      {"on_topic": false, "reason": "r"}
\*   "false bare" {"on_topic": false}
\*   "empty"      {}
\*   "mistyped"   {"on_topic": "yes"}
\*   "null"       null
\*   "words"      a sentence without braces
Bodies == {"true", "false", "false bare", "empty", "mistyped", "null", "words"}

ObjectBodies == {"true", "false", "false bare", "empty", "mistyped"}

Answers == [kind : {"text"}, wrap : Wraps, body : Bodies]

\* what the classifier client's Generate returns: an error or a text
ClassifierReturns ==
    {[kind |-> "error", cause |-> c] : c \in {"plain", "canceled", "deadline"}}
        \cup Answers

\* extractJSON: the inside of a closed ```json block, else of a closed ``` block,
\* else the text from the first { to the last }, else the whole text; the
\* result is the body, or "whole" when the text comes back with its surroundings
extractJSON(a) ==
    IF a.wrap \in {"jsonfence", "fence"} THEN a.body
    ELSE IF a.body \in ObjectBodies THEN a.body
    ELSE IF a.wrap = "raw" THEN a.body
    ELSE "whole"

\* json.Unmarshal into a classificationResponse: the error, and the struct
\* (fields the text does not set keep their zero value)
UnmarshalClassification(text) ==
    CASE text = "true"       -> [err |-> FALSE, OnTopic |-> TRUE, Reason |-> "r"]
      [] text = "false"      -> [err |-> FALSE, OnTopic |-> FALSE, Reason |-> "r"]
      [] text = "false bare" -> [err |-> FALSE, OnTopic |-> FALSE, Reason |-> ""]
      [] text = "empty"      -> [err |-> FALSE, OnTopic |-> FALSE, Reason |-> ""]
      [] text = "null"       -> [err |-> FALSE, OnTopic |-> FALSE, Reason |-> ""]
      [] OTHER               -> [err |-> TRUE, OnTopic |-> FALSE, Reason |-> ""]

OffTopic(reason) == [kind |-> "off-topic", reason |-> reason]

IntentInit ==
    /\ retry = DefaultRetryConfig
    /\ timeout = 0
    /\ detectors = <<>>
    /\ validators = <<>>
    /\ hasSchema = FALSE
    /\ schemaStrict = TRUE
    /\ pc = "pure"
    /\ di = 1
    /\ vi = 1
    /\ attempt = 0
    /\ lastErr = NoErr
    /\ output = NoOutput
    /\ ret = [result |-> NoResult, err |-> NoErr]
    /\ ctxErr = "none"
    /\ timeoutElapsed = FALSE
    /\ hist = InitHist
    /\ stage = InitStage
    /\ dly = NoDelay
    /\ decoded = NoDecoded
    /\ cons = InitCons
    /\ other = InitFrame
    /\ validated = NoValidated
    /\ prevDecoded = NoDecoded
    /\ agg = NoAgg
    /\ \E p \in Prompts, e \in {"none", "canceled", "deadline"} :
          intent = [NoIntent EXCEPT !.pc = "idle", !.prompt = p, !.ctx = e]
    /\ heap = <<>>
    /\ held = NoHeld

\* Intent.Detect up to the call of the classifier: ctx.Err() is returned when
\* ctx is done, otherwise the classification prompt is sent to the client
IntentDetect ==
    /\ intent.pc = "idle"
    /\ intent' = IF intent.ctx # "none"
                 THEN [intent EXCEPT !.pc = "done", !.entryErr = intent.ctx,
                                     !.ret = Collaborator(intent.ctx)]
                 ELSE [intent EXCEPT !.pc = "classifying",
                                     !.calls = Append(@, <<"classify", intent.prompt>>)]
    /\ UNCHANGED <<config, pc, di, vi, attempt, lastErr, output, ret, ctxErr,
                   timeoutElapsed, hist, stage, dly, decoded, cons, other, validated,
                   prevDecoded, agg, heap, held>>

\* ctx is cancelled or its deadline passes while the classifier is working
IntentSignal ==
    /\ intent.pc = "classifying"
    /\ intent.ctx = "none"
    /\ \E e \in {"canceled", "deadline"} : intent' = [intent EXCEPT !.ctx = e]
    /\ UNCHANGED <<config, pc, di, vi, attempt, lastErr, output, ret, ctxErr,
                   timeoutElapsed, hist, stage, dly, decoded, cons, other, validated,
                   prevDecoded, agg, heap, held>>

\* variant: the classifier's error is returned (fail closed)
IntentReturnFailsClosed ==
    /\ intent.pc = "classifying"
    /\ \E a \in ClassifierReturns :
          /\ a.kind = "error" /\ a.cause # "plain" => a.cause = intent.ctx
          /\ LET result == UnmarshalClassification(extractJSON(a))
                 reason == IF result.Reason = "" THEN "not related to domain"
                           ELSE result.Reason
             IN  intent' =
                    [intent EXCEPT
                        !.pc = "done", !.answer = a,
                        !.ret = IF a.kind = "error" THEN Collaborator(a.cause)
                                ELSE IF result.err THEN NoErr
                                ELSE IF ~result.OnTopic THEN OffTopic(reason)
                                ELSE NoErr]
    /\ UNCHANGED <<config, pc, di, vi, attempt, lastErr, output, ret, ctxErr,
                   timeoutElapsed, hist, stage, dly, decoded, cons, other, validated,
                   prevDecoded, agg, heap, held>>

\* Intent.Detect from the return of the classifier: nil when the client
\* failed, nil when the extracted text does not unmarshal, the off-topic error
\* when the struct's OnTopic is false, nil otherwise. The client returns a
\* context error only when ctx is done.
IntentReturn ==
    /\ intent.pc = "classifying"
    /\ \E a \in ClassifierReturns :
          /\ a.kind = "error" /\ a.cause # "plain" => a.cause = intent.ctx
          /\ LET result == UnmarshalClassification(extractJSON(a))
                 reason == IF result.Reason = "" THEN "not related to domain"
                           ELSE result.Reason
             IN  intent' =
                    [intent EXCEPT
                        !.pc = "done", !.answer = a,
                        !.ret = IF a.kind = "error" THEN NoErr
                                ELSE IF result.err THEN NoErr
                                ELSE IF ~result.OnTopic THEN OffTopic(reason)
                                ELSE NoErr]
    /\ UNCHANGED <<config, pc, di, vi, attempt, lastErr, output, ret, ctxErr,
                   timeoutElapsed, hist, stage, dly, decoded, cons, other, validated,
                   prevDecoded, agg, heap, held>>

IntentNext ==
    \/ IntentDetect
    \/ IntentSignal
    \/ IntentReturn

IntentSpec == IntentInit /\ [][IntentNext]_vars

\* ---------------------------------------------------------------- a Schema alone
\* A Schema from NewSchema, its strictness set at will, and successive calls of
\* Unmarshal and UnmarshalInto; decoded is the latest call, prevDecoded the one
\* before it.
UnmarshalInit ==
    /\ retry = DefaultRetryConfig
    /\ timeout = 0
    /\ detectors = <<>>
    /\ validators = <<>>
    /\ hasSchema = TRUE
    /\ schemaStrict = NewSchema("pointer to struct").schema.strict
    /\ pc = "pure"
    /\ di = 1
    /\ vi = 1
    /\ attempt = 0
    /\ lastErr = NoErr
    /\ output = NoOutput
    /\ ret = [result |-> NoResult, err |-> NoErr]
    /\ ctxErr = "none"
    /\ timeoutElapsed = FALSE
    /\ hist = InitHist
    /\ stage = InitStage
    /\ dly = NoDelay
    /\ decoded = NoDecoded
    /\ cons = InitCons
    /\ other = InitFrame
    /\ validated = NoValidated
    /\ prevDecoded = NoDecoded
    /\ agg = NoAgg
    /\ intent = NoIntent
    /\ heap = <<>>
    /\ held = NoHeld

\* the texts the calls are given: the outputs of Run and an object followed
\* by a closing brace
CallTexts == Outputs \cup {Text("object", TargetFields, "brace")}

\* variant: one decoder is kept between the calls, so the text it has
\* consumed is not there for the next call
UnmarshalCallSharedDecoder ==
    /\ pc = "pure"
    /\ \E data \in CallTexts :
          decoded' = [op |-> "Unmarshal", text |-> data, strict |-> schemaStrict,
                      res |-> IF decoded.op = "Unmarshal" /\ decoded.text = data
                              THEN [value |-> NoParsed, err |-> "failed to unmarshal JSON"]
                              ELSE Unmarshal(GuardSchema, data),
                      dest |-> NoDest, after |-> NoDest]
    /\ prevDecoded' = decoded
    /\ UNCHANGED <<config, pc, di, vi, attempt, lastErr, output, ret, ctxErr,
                   timeoutElapsed, hist, stage, dly, cons, other, validated, agg,
                   intent, heap, held>>

\* schema.Unmarshal(data)
UnmarshalCall ==
    /\ pc = "pure"
    /\ \E data \in CallTexts :
          decoded' = [op |-> "Unmarshal", text |-> data, strict |-> schemaStrict,
                      res |-> Unmarshal(GuardSchema, data),
                      dest |-> NoDest, after |-> NoDest]
    /\ prevDecoded' = decoded
    /\ UNCHANGED <<config, pc, di, vi, attempt, lastErr, output, ret, ctxErr,
                   timeoutElapsed, hist, stage, dly, cons, other, validated, agg,
                   intent, heap, held>>

\* schema.UnmarshalInto(data, dest)
UnmarshalIntoCall ==
    /\ pc = "pure"
    /\ \E data \in CallTexts, dest \in Dests :
          LET r == UnmarshalInto(GuardSchema, data, dest)
          IN  decoded' = [op |-> "UnmarshalInto", text |-> data, strict |-> schemaStrict,
                          res |-> [value |-> NoParsed, err |-> r.err],
                          dest |-> dest, after |-> r.dest]
    /\ prevDecoded' = decoded
    /\ UNCHANGED <<config, pc, di, vi, attempt, lastErr, output, ret, ctxErr,
                   timeoutElapsed, hist, stage, dly, cons, other, validated, agg,
                   intent, heap, held>>

UnmarshalNext ==
    \/ \E strict \in BOOLEAN : SchemaWithStrict(strict)
    \/ UnmarshalCall
    \/ UnmarshalIntoCall

UnmarshalSpec == UnmarshalInit /\ [][UnmarshalNext]_vars

\* ---------------------------------------------------------------- RetryConfig.Validate alone
ValidateInit ==
    /\ retry = DefaultRetryConfig
    /\ timeout = 0
    /\ detectors = <<>>
    /\ validators = <<>>
    /\ hasSchema = FALSE
    /\ schemaStrict = TRUE
    /\ pc = "pure"
    /\ di = 1
    /\ vi = 1
    /\ attempt = 0
    /\ lastErr = NoErr
    /\ output = NoOutput
    /\ ret = [result |-> NoResult, err |-> NoErr]
    /\ ctxErr = "none"
    /\ timeoutElapsed = FALSE
    /\ hist = InitHist
    /\ stage = InitStage
    /\ dly = NoDelay
    /\ decoded = NoDecoded
    /\ cons = InitCons
    /\ other = InitFrame
    /\ validated = NoValidated
    /\ prevDecoded = NoDecoded
    /\ agg = NoAgg
    /\ intent = NoIntent
    /\ heap = <<>>
    /\ held = NoHeld

\* c.Validate()
ApplyValidate ==
    /\ pc = "pure"
    /\ \E c \in Policies : validated' = [config |-> c, called |-> TRUE, ok |-> Validate(c)]
    /\ UNCHANGED <<config, pc, di, vi, attempt, lastErr, output, ret, ctxErr,
                   timeoutElapsed, hist, stage, dly, decoded, cons, other, prevDecoded,
                   agg, intent, heap, held>>

ValidateNext == ApplyValidate

ValidateSpec == ValidateInit /\ [][ValidateNext]_vars

\* ---------------------------------------------------------------- RetryConfig.delay alone
\* delay is applied to every valid policy, attempt index and random draw.
DelayInit ==
    /\ retry \in RetryConfigs
    /\ timeout = 0
    /\ detectors = <<>>
    /\ validators = <<>>
    /\ hasSchema = FALSE
    /\ schemaStrict = TRUE
    /\ pc = "pure"
    /\ di = 1
    /\ vi = 1
    /\ attempt = 0
    /\ lastErr = NoErr
    /\ output = NoOutput
    /\ ret = [result |-> NoResult, err |-> NoErr]
    /\ ctxErr = "none"
    /\ timeoutElapsed = FALSE
    /\ hist = InitHist
    /\ stage = InitStage
    /\ dly = NoDelay
    /\ decoded = NoDecoded
    /\ cons = InitCons
    /\ other = InitFrame
    /\ validated = NoValidated
    /\ prevDecoded = NoDecoded
    /\ agg = NoAgg
    /\ intent = NoIntent
    /\ heap = <<>>
    /\ held = NoHeld

ApplyDelay ==
    /\ pc = "pure"
    /\ \E a \in 0..MaxDelayAttempt, r \in 0..(RandDen - 1) :
          dly' = [attempt |-> a, rand |-> r, result |-> delay(retry, a, r)]
    /\ UNCHANGED <<config, pc, di, vi, attempt, lastErr, output, ret, ctxErr,
                   timeoutElapsed, hist, stage, decoded, cons, other, validated,
                   prevDecoded, agg, intent, heap, held>>

DelayNext == ApplyDelay

DelaySpec == DelayInit /\ [][DelayNext]_vars

\* ================================================================ claims

\* C1: once any configured detector has rejected the prompt, Run has returned a
\* DetectionError and no Result, the generation client has been invoked zero
\* times and no attempt or backoff has taken place, whatever MaxAttempts is.
C1_DetectorRejectionIsTerminal ==
    hist.rejected =>
        /\ pc = "done"
        /\ ret.result = NoResult
        /\ ret.err.kind = "DetectionError"
        /\ hist.genCalls = 0
        /\ hist.backoffs = 0
        /\ attempt = 0

C1_Witness ==
    /\ hist.rejected
    /\ pc = "done"
    /\ retry.MaxAttempts > 1
    /\ di = 2

\* C2: when Run returns a Result after k-1 failed attempts, Metadata.Attempts
\* is k, k <= MaxAttempts, the error is nil and the client was invoked exactly
\* k times.
C2_AttemptsCountsGenerations ==
    ret.result # NoResult =>
        /\ pc = "done"
        /\ ret.err = NoErr
        /\ ret.result.Attempts = hist.fails + 1
        /\ ret.result.Attempts <= retry.MaxAttempts
        /\ hist.genCalls = hist.fails + 1

C2_Witness ==
    /\ ret.result # NoResult
    /\ ret.result.Attempts = 3
    /\ hist.fails = 2
    /\ hist.last.kind = "SchemaError"

\* C3: Run returns MaxRetriesError exactly when MaxAttempts attempts each ended
\* in a retryable failure; it then carries Attempts = MaxAttempts and, as
\* LastErr, the wrapped failure of the final attempt, and the client was
\* invoked exactly MaxAttempts times.
C3_ExhaustionReportsLastFailure ==
    LET exhausted == /\ pc = "done"
                     /\ hist.fails = retry.MaxAttempts
                     /\ hist.last.cause = "plain"
    IN  /\ exhausted => ret.err.kind = "MaxRetriesError"
        /\ ret.err.kind = "MaxRetriesError" =>
              /\ exhausted
              /\ ret.result = NoResult
              /\ ret.err.Attempts = retry.MaxAttempts
              /\ ret.err.LastErr = hist.last
              /\ hist.genCalls = retry.MaxAttempts

C3_Witness ==
    /\ ret.err.kind = "MaxRetriesError"
    /\ retry.MaxAttempts = 3
    /\ ret.err.LastErr.kind = "GenerationError"
    /\ hist.backoffs = 2

\* C4: a generation, post-check or decode failure whose cause chain holds
\* context.Canceled or context.DeadlineExceeded ends the run at once: Run has
\* returned exactly that wrapped failure (not a MaxRetriesError), and neither a
\* backoff nor a generation call followed it, even when attempts remain.
C4_ContextFailureNeverRetried ==
    (hist.fails > 0 /\ hist.last.cause \in {"canceled", "deadline"}) =>
        /\ pc = "done"
        /\ ret.result = NoResult
        /\ ret.err = hist.last
        /\ ret.err.kind \in {"GenerationError", "ValidationError", "SchemaError"}
        /\ hist.genCalls = hist.fails
        /\ hist.backoffs = hist.fails - 1

C4_Witness ==
    /\ pc = "done"
    /\ ret.err.kind = "ValidationError"
    /\ ret.err.cause = "deadline"
    /\ hist.fails = 2
    /\ retry.MaxAttempts = 3

C6_CancelDuringBackoffAborts ==
    hist.sigInWait =>
        /\ \/ pc = "aborting"
           \/ /\ pc = "done"
              /\ ret.result = NoResult
              /\ ret.err = ContextError(ctxErr)
        /\ ctxErr # "none"
        /\ ~hist.genAfterWaitSig
        /\ hist.genCalls = attempt

C6_Witness ==
    /\ hist.sigInWait
    /\ pc = "done"
    /\ ret.err = ContextError("canceled")
    /\ attempt = 1
    /\ retry.MaxAttempts = 3

\* C7: a run whose configured timeout elapsed before it returned returns
\* neither a MaxRetriesError nor a Result.
C7_TimeoutPrecedesExhaustion ==
    (timeoutElapsed /\ pc = "done") =>
        /\ ret.err.kind # "MaxRetriesError"
        /\ ret.result = NoResult

\* C8: no generation call for a retry is made when the context was already
\* done at the moment the backoff before that retry was requested.
C8_NoAttemptAfterSignal ==
    ~hist.genAfterSig

\* C9: with MaxAttempts = 1 backoff is never called, no wait occurs and the
\* client is invoked at most once, whatever the outcome.
C9_SingleAttemptNoBackoff ==
    retry.MaxAttempts = 1 =>
        /\ hist.backoffs = 0
        /\ hist.waits = 0
        /\ hist.genCalls <= 1
        /\ pc \notin {"waiting", "aborting"}

C9_Witness ==
    /\ retry.MaxAttempts = 1
    /\ pc = "done"
    /\ hist.genCalls = 1
    /\ ret.err.kind = "MaxRetriesError"
    /\ retry.InitialDelay > 0

\* C10: for every valid RetryConfig and attempt index a >= 1, delay(a) is at
\* most MaxDelay, jitter included.
C10_DelayNeverExceedsMaxDelay ==
    dly.attempt >= 1 => dly.result <= retry.MaxDelay

C12_PhaseOrder ==
    /\ pc \in {"validate", "decode"} => stage.gen = "ok"
    /\ stage.valLog # <<>> => stage.gen = "ok"
    /\ (pc = "decode" \/ stage.dec # "none") =>
          /\ stage.gen = "ok"
          /\ stage.valLog = validators
          /\ stage.valFail = "none"
    /\ ret.result # NoResult =>
          /\ stage.gen = "ok"
          /\ stage.valLog = validators
          /\ stage.valFail = "none"
          /\ stage.dec = (IF hasSchema THEN "ok" ELSE "none")
          /\ ret.result.Attempts = stage.att + 1

C12_Witness ==
    /\ pc = "done"
    /\ ret.result # NoResult
    /\ hasSchema
    /\ Len(validators) = 2
    /\ stage.dec = "ok"
    /\ hist.last.kind = "GenerationError"

\* C13: the checks of a phase are invoked in declaration order, the first
\* failing check stops the phase, and the DetectionError or ValidationError
\* carries the name of exactly the failing check with its error as the cause.
C13_ChecksInOrderFirstFailureNamed ==
    /\ Len(stage.detLog) <= Len(detectors)
    /\ stage.detLog = SubSeq(detectors, 1, Len(stage.detLog))
    /\ (pc # "detect" /\ stage.detFail = "none") => stage.detLog = detectors
    /\ stage.detFail # "none" =>
          /\ pc = "done"
          /\ di = Len(stage.detLog)
          /\ ret = [result |-> NoResult,
                    err |-> DetectionError(detectors[Len(stage.detLog)], stage.detFail)]
    /\ Len(stage.valLog) <= Len(validators)
    /\ stage.valLog = SubSeq(validators, 1, Len(stage.valLog))
    /\ stage.valFail # "none" =>
          /\ pc \notin {"validate", "decode"}
          /\ vi = Len(stage.valLog)
          /\ stage.dec = "none"
          /\ hist.last = ValidationError(validators[Len(stage.valLog)], stage.valFail)
          /\ lastErr = hist.last

C13_Witness ==
    /\ Len(stage.valLog) = 2
    /\ stage.valFail = "plain"
    /\ hist.last = ValidationError(validators[2], "plain")
    /\ hist.genCalls = 2

\* C14: Run ends with exactly one terminal value on every path: a non-nil
\* Result with a nil error, or a nil Result with one non-nil error; before it
\* returns there is no value at all.
C14_ExactlyOneTerminalValue ==
    /\ pc = "done" => (ret.result # NoResult) # (ret.err # NoErr)
    /\ pc # "done" => ret = [result |-> NoResult, err |-> NoErr]

C14_Witness ==
    /\ pc = "done"
    /\ ret.result # NoResult
    /\ ret.err = NoErr
    /\ hist.fails >= 1
\* C15: Schema.Unmarshal is strict by default: a text with a field the target
\* struct does not have is rejected; after WithStrict(false) the same text is
\* accepted; and a Guard built with WithSchema and no strictness setting never
\* returns a successful Result for an output with an unknown field.
C15_StrictByDefault ==
    /\ ~hist.strictSet => schemaStrict
    /\ (decoded # NoDecoded /\ decoded.strict /\ decoded.text.fields \cap UnknownFields # {})
          => (decoded.res.err # "nil" /\ decoded.res.value = NoParsed)
    /\ (decoded # NoDecoded /\ ~decoded.strict /\ decoded.text.syntax = "object"
            /\ decoded.text.trailing \in {"none", "space"})
          => (decoded.res.err = "nil"
              /\ decoded.res.value = <<"parsed", decoded.text.fields \cap TargetFields>>)
    /\ (~hist.strictSet /\ ret.result # NoResult)
          => ret.result.Raw.fields \cap UnknownFields = {}

C15_Witness ==
    /\ ~hist.strictSet
    /\ decoded.strict
    /\ decoded.text = Text("object", TargetFields \cup UnknownFields, "none")
    /\ decoded.res.err = "failed to unmarshal JSON"
    /\ pc = "done"
    /\ hist.last.kind = "SchemaError"
    /\ output.fields \cap UnknownFields # {}
    /\ ret.err.kind = "MaxRetriesError"

\* C16: in both modes Schema.Unmarshal rejects every text that has any
\* non-whitespace content after its first JSON value, whatever the first
\* trailing character is.
C16_TrailingContentRejected ==
    (decoded # NoDecoded /\ decoded.text.trailing \notin {"none", "space"})
        => decoded.res.err # "nil"
\* C18: after New has returned a Guard its configuration (check lists, retry
\* policy, timeout, schema and schema strictness) is read-only: no operation
\* reachable through the Guard's public API changes it.
C18_ConfigurationReadOnly == [][config' = config]_vars
\* C17: when both WithSchema and WithStrictSchema(s) are passed to New, the
\* schema of the resulting Guard has strictness s, whatever the order of the
\* two options in the list.
C17_StrictnessIndependentOfOrder ==
    LET ap == cons.applied
        schemaIdx == {i \in 1..Len(ap) : ap[i].op = "WithSchema"}
        strictIdx == {i \in 1..Len(ap) : ap[i].op = "WithStrictSchema"}
    IN  (pc = "constructed" /\ cons.ret.err = NoErr /\ schemaIdx # {} /\ strictIdx # {})
            => \A i \in strictIdx :
                  (\A j \in strictIdx : j <= i)
                      => cons.ret.guard.schema.strict = ap[i].arg

\* C20: invalid configuration is a construction-time failure: New returns a
\* nil Guard and the matching error for a missing or nil client, a nil
\* detector or validator, an invalid retry policy or WithMaxRetries below 1, a
\* negative timeout and a schema template that is not a pointer to a struct; a
\* timeout of 0 is accepted; every Guard New returns has a client,
\* MaxAttempts >= 1 and timeout >= 0.
C20_InvalidConfigurationFailsConstruction ==
    LET ap == cons.applied
        r == cons.ret
        HasNil(l) == \E i \in 1..Len(l) : l[i] = NilCheck
        Bad(o) ==
            CASE o.op = "WithClient" -> o.arg = "nil"
              [] o.op = "WithSchema" -> o.arg # "pointer to struct"
              [] o.op \in {"WithDetectors", "WithValidators"} -> HasNil(o.arg)
              [] o.op = "WithRetry" ->
                    ~ /\ o.arg.MaxAttempts >= 1 /\ o.arg.InitialDelay >= 0
                      /\ o.arg.MaxDelay >= 0
                      /\ o.arg.Multiplier # NaN /\ o.arg.Multiplier >= 1
                      /\ o.arg.Jitter # NaN /\ o.arg.Jitter >= 0
                      /\ o.arg.Jitter <= JitterDen
              [] o.op = "WithMaxRetries" -> o.arg < 1
              [] o.op = "WithTimeout" -> o.arg < 0
              [] OTHER -> FALSE
        Expected(o) ==
            CASE o.op = "WithClient" -> "ErrNilClient"
              [] o.op = "WithSchema" -> "ErrInvalidSchema"
              [] o.op = "WithDetectors" -> "ErrNilDetector"
              [] o.op = "WithValidators" -> "ErrNilValidator"
              [] o.op \in {"WithRetry", "WithMaxRetries"} -> "ErrInvalidRetryConfig"
              [] o.op = "WithTimeout" -> "ErrInvalidTimeout"
              [] OTHER -> "nil"
        allGood == \A i \in 1..Len(ap) : ~Bad(ap[i])
        timeouts == {i \in 1..Len(ap) : ap[i].op = "WithTimeout"}
    IN  /\ pc = "new" => (r = [guard |-> NoGuard, err |-> NoErr] /\ allGood)
        /\ pc = "constructed" =>
              /\ (r.guard = NoGuard) # (r.err = NoErr)
              /\ \A i \in 1..Len(ap) :
                    Bad(ap[i]) => /\ i = Len(ap)
                                  /\ r = [guard |-> NoGuard,
                                          err |-> [kind |-> Expected(ap[i])]]
              /\ (allGood /\ \A i \in 1..Len(ap) : ap[i].op # "WithClient")
                    => r = [guard |-> NoGuard, err |-> [kind |-> "ErrNoClient"]]
              /\ (allGood /\ \E i \in 1..Len(ap) : ap[i].op = "WithClient")
                    => (r.err = NoErr /\ r.guard # NoGuard)
              /\ r.guard # NoGuard =>
                    /\ r.guard.client # "nil"
                    /\ r.guard.retry.MaxAttempts >= 1
                    /\ r.guard.timeout >= 0
                    /\ ~HasNil(r.guard.detectors)
                    /\ ~HasNil(r.guard.validators)
                    /\ \A i \in timeouts :
                          (\A j \in timeouts : j <= i) => r.guard.timeout = ap[i].arg

\* C19: when runs execute concurrently on one Guard, the attempt counter and
\* the last failure are private to each run: under every interleaving the
\* Attempts a run reports (or MaxRetriesError.Attempts and LastErr) follow
\* from that run's own generation, validation and decode outcomes alone.
C19_RunStateIsPrivate ==
    \A f \in {Frame, other} :
        /\ f.lastErr = f.hist.last
        /\ f.pc \in {"generating", "validate", "decode"} => f.hist.genCalls = f.attempt + 1
        /\ (f.pc = "done" /\ f.ret.result # NoResult) =>
              /\ f.ret.result.Attempts = f.hist.genCalls
              /\ f.ret.result.Attempts = f.hist.fails + 1
              /\ f.ret.result.Raw = f.output
        /\ (f.pc = "done" /\ f.ret.err.kind = "MaxRetriesError") =>
              /\ f.ret.err.Attempts = retry.MaxAttempts
              /\ f.hist.genCalls = retry.MaxAttempts
              /\ f.hist.fails = retry.MaxAttempts
              /\ f.ret.err.LastErr = f.hist.last

C19_Witness ==
    /\ pc = "done"
    /\ other.pc = "done"
    /\ retry.MaxAttempts = 2
    /\ ret.result # NoResult
    /\ ret.result.Attempts = 2
    /\ other.ret.err.kind = "MaxRetriesError"
    /\ other.ret.err.LastErr.kind = "ValidationError"
    /\ hist.last.kind = "SchemaError"

\* C21: RetryConfig.Validate accepts a policy if and only if MaxAttempts >= 1,
\* InitialDelay >= 0, MaxDelay >= 0, Multiplier >= 1 and 0 <= Jitter <= 1; in
\* particular the single-attempt policy with zero delays, multiplier 1 and
\* jitter 0 is accepted.
C21_ValidateAcceptsExactlyValidPolicies ==
    validated.called =>
        LET c == validated.config
        IN  validated.ok <=>
                /\ c.MaxAttempts >= 1
                /\ c.InitialDelay >= 0
                /\ c.MaxDelay >= 0
                /\ c.Multiplier # NaN /\ c.Multiplier >= 1
                /\ c.Jitter # NaN /\ c.Jitter >= 0 /\ c.Jitter <= JitterDen
\* C22: every failure Run returns keeps its cause reachable by unwrapping: a
\* DetectionError, ValidationError, SchemaError or GenerationError unwraps to
\* the error its collaborator returned, and a MaxRetriesError unwraps to the
\* typed failure of the last attempt, which in turn unwraps to its cause.
C22_CauseReachableByUnwrap ==
    LET attemptFailure ==
            IF stage.gen = "fail" THEN GenerationError(stage.genFail)
            ELSE IF stage.valFail # "none"
            THEN ValidationError(validators[Len(stage.valLog)], stage.valFail)
            ELSE SchemaError("plain")
        attemptCause ==
            IF stage.gen = "fail" THEN stage.genFail
            ELSE IF stage.valFail # "none" THEN stage.valFail
            ELSE "plain"
    IN  (pc = "done" /\ ret.err # NoErr) =>
          /\ ret.err.kind = "DetectionError" =>
                Unwrap(ret.err) = Collaborator(stage.detFail)
          /\ ret.err.kind \in {"GenerationError", "ValidationError", "SchemaError"} =>
                /\ ret.err = attemptFailure
                /\ Unwrap(ret.err) = Collaborator(attemptCause)
          /\ ret.err.kind = "MaxRetriesError" =>
                /\ Unwrap(ret.err) = attemptFailure
                /\ Unwrap(Unwrap(ret.err)) = Collaborator(attemptCause)
                /\ stage.att = retry.MaxAttempts - 1

C22_Witness ==
    /\ pc = "done"
    /\ ret.err.kind = "MaxRetriesError"
    /\ retry.MaxAttempts = 2
    /\ Len(validators) = 2
    /\ Unwrap(ret.err) = ValidationError(validators[2], "plain")
    /\ Unwrap(Unwrap(ret.err)) = Collaborator("plain")
\* C23: when no schema is configured the decode phase is skipped on every
\* attempt: a run whose generation and validators succeed returns a Result
\* with Parsed nil and no error, and no SchemaError is ever produced.
C23_NoSchemaSkipsDecode ==
    ~hasSchema =>
        /\ stage.dec = "none"
        /\ lastErr.kind # "SchemaError"
        /\ ret.err.kind # "SchemaError"
        /\ ret.err.kind = "MaxRetriesError" => ret.err.LastErr.kind # "SchemaError"
        /\ ret.result # NoResult => (ret.result.Parsed = NoParsed /\ ret.err = NoErr)
        /\ (stage.gen = "ok" /\ stage.valLog = validators /\ stage.valFail = "none"
               /\ pc \notin {"validate", "decode"})
              => (pc = "done" /\ ret.result # NoResult /\ ret.result.Raw = output)

C23_Witness ==
    /\ ~hasSchema
    /\ pc = "done"
    /\ Len(validators) = 2
    /\ ret.result # NoResult
    /\ ret.result.Parsed = NoParsed
    /\ ret.result.Raw = Text("fenced", TargetFields, "none")
    /\ ret.result.Attempts = 2
C27_WrongDestinationRejected ==
    (decoded.op = "UnmarshalInto"
     /\ decoded.dest.kind \in {"nil", "non-pointer", "pointer to other type",
                                "pointer to same-shape type", "nil pointer to target"})
        => (decoded.res.err \notin {"nil", "none"} /\ decoded.after = decoded.dest)

C27_Witness ==
    /\ decoded.op = "UnmarshalInto"
    /\ decoded.dest = [kind |-> "pointer to same-shape type", fields |-> {}]
    /\ decoded.text = Text("object", TargetFields, "none")
    /\ decoded.res.err = "destination type mismatch"
    /\ decoded.after = decoded.dest
\* C25: every detector is invoked with the prompt exactly as given to Run, and
\* the client is invoked with that same prompt on every attempt.
C25_PromptPassedUnmodified ==
    \A f \in {Frame, other} :
        /\ f.hist.prompt \in Prompts
        /\ f.hist.detArgs = IF f.stage.detLog = <<>> THEN {} ELSE {f.hist.prompt}
        /\ f.hist.genArgs = IF f.hist.genCalls = 0 THEN {} ELSE {f.hist.prompt}

C25_Witness ==
    /\ hist.prompt # other.hist.prompt
    /\ hist.genCalls = 2
    /\ other.hist.genCalls = 2
    /\ stage.detLog = detectors
    /\ Len(detectors) = 1
    /\ other.stage.detLog = detectors
    /\ hist.genArgs = {hist.prompt}
    /\ hist.detArgs = {hist.prompt}
    /\ other.hist.genArgs = {other.hist.prompt}
\* C26: Result.Raw is exactly the text the generation call of the successful
\* attempt returned; validators cannot alter it: a JSONExtractor passes its
\* extracted text only to its inner validator, and the later validators and
\* the schema decode receive the raw text.
C26_RawIsGeneratedText ==
    /\ stage.valArgs = IF stage.valLog = <<>> THEN {} ELSE {stage.genOut}
    /\ stage.innerArgs =
          IF \E i \in 1..Len(stage.valLog) : IsExtractor(stage.valLog[i])
          THEN {Extract(stage.genOut)} ELSE {}
    /\ stage.decArg = IF stage.dec = "none" THEN NoOutput ELSE stage.genOut
    /\ (pc = "done" /\ ret.result # NoResult) =>
          /\ stage.gen = "ok"
          /\ stage.att = ret.result.Attempts - 1
          /\ ret.result.Raw = stage.genOut

C26_Witness ==
    /\ pc = "done"
    /\ ret.result # NoResult
    /\ ret.result.Raw = Text("fenced", TargetFields, "none")
    /\ ret.result.Attempts = 2
    /\ Len(validators) = 2
    /\ stage.valLog = validators
    /\ stage.valArgs = {ret.result.Raw}
    /\ stage.innerArgs = {Text("object", TargetFields, "none")}
\* C28: WithDetectors and WithValidators accumulate: the Guard's detector
\* (validator) list is the concatenation of all arguments in the order the
\* options and their arguments were given, and that is the order in which Run
\* invokes them.
C28_CheckListsAccumulate ==
    LET RECURSIVE Concat(_, _)
        Concat(opts, op) ==
            IF opts = <<>> THEN <<>>
            ELSE (IF Head(opts).op = op THEN Head(opts).arg ELSE <<>>)
                 \o Concat(Tail(opts), op)
        dets == Concat(cons.applied, "WithDetectors")
        vals == Concat(cons.applied, "WithValidators")
    IN  /\ cons.ret.guard.detectors = dets
        /\ cons.ret.guard.validators = vals
        /\ stage.detLog = SubSeq(dets, 1, Len(stage.detLog))
        /\ stage.valLog = SubSeq(vals, 1, Len(stage.valLog))
        /\ (stage.detFail = "none" /\ pc # "detect") => stage.detLog = dets
        /\ (pc = "done" /\ ret.result # NoResult) => stage.valLog = vals

C28_Witness ==
    /\ pc = "done"
    /\ ret.result # NoResult
    /\ Len(cons.applied) = 4
    /\ cons.applied[3] = Opt("WithDetectors", <<DetectorNames[2], DetectorNames[1]>>)
    /\ cons.applied[4] = Opt("WithDetectors", <<DetectorNames[2]>>)
    /\ stage.detLog = <<DetectorNames[2], DetectorNames[1], DetectorNames[2]>>
C29_MaxRetriesSetsOnlyMaxAttempts ==
    (pc = "new" \/ (pc = "constructed" /\ cons.ret.guard # NoGuard)) =>
        LET ap == cons.applied
            g == IF pc = "new" THEN cons.g ELSE cons.ret.guard
            Last(S) == CHOOSE i \in S : \A j \in S : j <= i
            policies == {i \in 1..Len(ap) : ap[i].op = "WithRetry"}
            counts == {i \in 1..Len(ap) : ap[i].op = "WithMaxRetries"}
            base == IF policies = {} THEN DefaultRetryConfig ELSE ap[Last(policies)].arg
            max == IF counts = {} \/ (policies # {} /\ Last(policies) > Last(counts))
                   THEN base.MaxAttempts
                   ELSE ap[Last(counts)].arg
        IN  g.retry = [base EXCEPT !.MaxAttempts = max]

C29_Witness ==
    /\ pc = "constructed"
    /\ cons.applied = <<Opt("WithRetry", NoRetryConfig), Opt("WithMaxRetries", 2),
                        Opt("WithClient", "client")>>
    /\ cons.ret.err = NoErr
    /\ cons.ret.guard.retry = [NoRetryConfig EXCEPT !.MaxAttempts = 2]
\* C31: Detectors and Validators invoke their members in order and stop at the
\* first error, returning that member's error unchanged (not wrapped) without
\* invoking later members; an empty aggregate always passes.
C31_AggregateStopsAtFirstError ==
    LET m == agg.members
        failing == {j \in 1..Len(m) : m[j] # NoErr}
        first == CHOOSE j \in failing : \A l \in failing : j <= l
    IN  /\ \A j \in 1..Len(agg.log) : agg.log[j] = j
        /\ \A j \in 1..(Len(agg.log) - 1) : m[j] = NoErr
        /\ ~agg.done => agg.err = NoErr
        /\ agg.done =>
              IF failing = {}
              THEN agg.err = NoErr /\ Len(agg.log) = Len(m)
              ELSE agg.err = m[first] /\ Len(agg.log) = first

C31_Witness ==
    /\ agg.done
    /\ agg.kind = "Validators"
    /\ agg.members = <<NoErr, Collaborator("plain"), Collaborator("canceled")>>
    /\ agg.err = Collaborator("plain")
    /\ agg.log = <<1, 2>>
\* C32: backoff is requested exactly once before each attempt with index >= 1,
\* never before attempt 0 and never after the final failed attempt; the number
\* of backoff requests is at most the number of generation calls, and
\* MaxRetriesError follows the last attempt's failure without a further wait.
C32_OneBackoffBeforeEachRetry ==
    /\ pc \in {"generate", "generating", "validate", "decode"} => hist.backoffs = attempt
    /\ pc \in {"waiting", "aborting"} => (attempt >= 1 /\ hist.backoffs = attempt)
    /\ hist.backoffs <= hist.genCalls
    /\ hist.waits <= hist.backoffs
    /\ hist.genCalls > 0 => hist.backoffs \in {hist.genCalls - 1, hist.genCalls}
    /\ ret.err.kind = "MaxRetriesError" =>
          /\ hist.genCalls = retry.MaxAttempts
          /\ hist.backoffs = retry.MaxAttempts - 1

C32_Witness ==
    /\ pc = "done"
    /\ ret.err.kind = "MaxRetriesError"
    /\ retry.MaxAttempts = 3
    /\ retry.InitialDelay > 0
    /\ hist.genCalls = 3
    /\ hist.backoffs = 2
    /\ hist.waits = 2
\* C33: whenever Run returns MaxRetriesError, its LastErr is non-nil and is a
\* GenerationError, a ValidationError or a SchemaError (never a DetectionError
\* and never a bare context error), for every Guard that New can return.
C33_ExhaustionCarriesAttemptFailure ==
    /\ retry = cons.ret.guard.retry
    /\ ret.err.kind = "MaxRetriesError" =>
          /\ ret.err.LastErr # NoErr
          /\ ret.err.LastErr.kind \in {"GenerationError", "ValidationError", "SchemaError"}
          /\ ret.err.LastErr = hist.last

C33_Witness ==
    /\ pc = "done"
    /\ cons.applied[2] = Opt("WithMaxRetries", 2)
    /\ ret.err.kind = "MaxRetriesError"
    /\ ret.err.Attempts = 2
    /\ ret.err.LastErr.kind = "GenerationError"
    /\ hist.fails = 2
\* C34: Run always terminates provided every invoked collaborator returns:
\* the generation client is invoked at most MaxAttempts times, each detector
\* at most once and each validator at most once per attempt, after which Run
\* returns a Result or an error.
C34_RunTerminates ==
    /\ [](/\ hist.genCalls <= retry.MaxAttempts
          /\ stage.att < retry.MaxAttempts
          /\ Len(stage.detLog) <= Len(detectors)
          /\ Len(stage.valLog) <= Len(validators)
          /\ pc = "done" => (ret.result # NoResult) # (ret.err # NoErr))
    /\ <>(pc = "done")

C34_Witness ==
    /\ pc = "done"
    /\ retry.MaxAttempts = 3
    /\ retry.InitialDelay > 0
    /\ hist.genCalls = 3
    /\ hist.waits = 2
    /\ ctxErr = "none"
    /\ ret.err.kind = "MaxRetriesError"
    /\ stage.valLog = validators
\* C35 (as stated): a Run started with an already-cancelled context and at
\* least one built-in detector returns a DetectionError whose cause is
\* context.Canceled and invokes the generation client zero times.
C35_Original ==
    (/\ hist.startErr = "canceled"
     /\ \E i \in 1..Len(detectors) : IsBuiltin(detectors[i])
     /\ pc = "done")
        => /\ ret.err.kind = "DetectionError"
           /\ ret.err.cause = "canceled"
           /\ hist.genCalls = 0

\* C35 (amended): a built-in detector or validator invoked with a done context
\* returns the context's error without examining the text; a Run started with
\* an already-cancelled context and at least one built-in detector returns a
\* DetectionError and invokes the generation client zero times, and the cause
\* is context.Canceled unless a detector of the caller's own, placed before
\* the first built-in one, has rejected the prompt with its own error.
C35_BuiltinChecksHonourContext ==
    LET builtins == {i \in 1..Len(detectors) : IsBuiltin(detectors[i])}
        n == Len(stage.detLog)
    IN  /\ ~stage.ctxSkipped
        /\ (n > 0 /\ IsBuiltin(stage.detLog[n]) /\ hist.startErr # "none") =>
               (stage.detFail = hist.startErr /\ pc = "done")
        /\ (stage.valLog # <<>> /\ IsBuiltin(stage.valLog[Len(stage.valLog)])
                /\ stage.valFail \notin {"none", "plain"}) => stage.valFail = ctxErr
        /\ (hist.startErr = "canceled" /\ builtins # {}) =>
               /\ hist.genCalls = 0
               /\ pc \in {"detect", "done"}
               /\ pc = "done" =>
                     /\ ret.err.kind = "DetectionError"
                     /\ ret.err.name = stage.detLog[n]
                     /\ \/ ret.err.cause = "canceled"
                        \/ /\ ~IsBuiltin(stage.detLog[n])
                           /\ \A i \in builtins : n < i

C35_Witness ==
    /\ pc = "done"
    /\ hist.startErr = "canceled"
    /\ detectors = <<DetectorNames[1], <<"keywords", 1>>>>
    /\ stage.detLog = detectors
    /\ ret.err = DetectionError(<<"keywords", 1>>, "canceled")
    /\ hist.genCalls = 0
\* C36: the Intent detector fails open: Detect returns nil whenever the
\* classifier client returns an error (a cancellation during the call included)
\* or a text that does not parse as the classification JSON; the off-topic
\* error is returned only when the parsed answer has on_topic = false. A ctx
\* already done at entry is answered with ctx's error, the classifier not asked.
C36_IntentFailsOpen ==
    intent.pc = "done" =>
        LET a == intent.answer
            inside == \/ a.wrap \in {"raw", "jsonfence", "fence"}
                      \/ a.body \in ObjectBodies
        IN  /\ intent.entryErr # "none" =>
                  /\ intent.calls = <<>>
                  /\ intent.ret = Collaborator(intent.entryErr)
            /\ intent.entryErr = "none" =>
                  /\ intent.calls = <<<<"classify", intent.prompt>>>>
                  /\ a.kind = "error" => intent.ret = NoErr
                  /\ a.kind = "text" /\ (a.body \in {"words", "mistyped"} \/ ~inside)
                        => intent.ret = NoErr
                  /\ a.kind = "text" /\ a.body = "true" => intent.ret = NoErr
                  /\ intent.ret # NoErr =>
                        /\ intent.ret.kind = "off-topic"
                        /\ a.kind = "text"
                        /\ inside
                        /\ a.body \in {"false", "false bare", "empty", "null"}

C36_Witness ==
    /\ intent.pc = "done"
    /\ intent.entryErr = "none"
    /\ intent.ctx = "canceled"
    /\ intent.answer = [kind |-> "error", cause |-> "canceled"]
    /\ intent.calls # <<>>
    /\ intent.ret = NoErr
\* C37: New applies its options in the given order and stops at the first
\* option that fails, returning that option's error and a nil Guard; ErrNoClient
\* is returned only when every option succeeded and no client was set.
C37_NewStopsAtFirstFailingOption ==
    LET ap == cons.applied
        n == Len(ap)
        \* the error an option answers with, whatever the Guard it is given
        Refusal(o) ==
            CASE o.op = "WithClient" /\ o.arg = "nil" -> ConfigError("ErrNilClient")
              [] o.op = "WithSchema" /\ o.arg # "pointer to struct"
                    -> ConfigError("ErrInvalidSchema")
              [] o.op = "WithDetectors" /\ (\E i \in 1..Len(o.arg) : o.arg[i] = NilCheck)
                    -> ConfigError("ErrNilDetector")
              [] o.op = "WithValidators" /\ (\E i \in 1..Len(o.arg) : o.arg[i] = NilCheck)
                    -> ConfigError("ErrNilValidator")
              [] o.op = "WithRetry" /\ ~Validate(o.arg)
                    -> ConfigError("ErrInvalidRetryConfig")
              [] o.op = "WithMaxRetries" /\ o.arg < 1
                    -> ConfigError("ErrInvalidRetryConfig")
              [] o.op = "WithTimeout" /\ o.arg < 0 -> ConfigError("ErrInvalidTimeout")
              [] OTHER -> NoErr
        clientSet == \E i \in 1..n : ap[i].op = "WithClient"
        RECURSIVE Checks(_, _)
        Checks(op, i) ==
            IF i > n THEN <<>>
            ELSE IF ap[i].op = op THEN ap[i].arg \o Checks(op, i + 1)
            ELSE Checks(op, i + 1)
    IN  /\ \A i \in 1..(n - 1) : Refusal(ap[i]) = NoErr
        /\ pc = "new" => (n > 0 => Refusal(ap[n]) = NoErr)
        /\ pc = "constructed" =>
              IF n > 0 /\ Refusal(ap[n]) # NoErr
              THEN cons.ret = [guard |-> NoGuard, err |-> Refusal(ap[n])]
              ELSE IF ~clientSet
              THEN cons.ret = [guard |-> NoGuard, err |-> ConfigError("ErrNoClient")]
              ELSE /\ cons.ret.err = NoErr
                   /\ cons.ret.guard = ApplyOptions(NewGuard, ap).g
                   /\ cons.ret.guard.detectors = Checks("WithDetectors", 1)
                   /\ cons.ret.guard.validators = Checks("WithValidators", 1)

C37_Witness ==
    /\ pc = "constructed"
    /\ cons.applied = <<Opt("WithTimeout", 1), Opt("WithMaxRetries", 0)>>
    /\ cons.g.client = "nil"
    /\ cons.ret = [guard |-> NoGuard, err |-> ConfigError("ErrInvalidRetryConfig")]
\* C38: every successful decode produces a fresh instance of the target type:
\* the Parsed values of two runs are never the same object, so a write through
\* one Result's Parsed changes neither the other Result's value nor the Schema.
C38_ParsedIsFresh ==
    LET runs == <<[ret |-> ret, hist |-> hist], [ret |-> other.ret, hist |-> other.hist]>>
        HasParsed(r) == /\ runs[r].ret.result # NoResult
                        /\ runs[r].ret.result.Parsed # NoParsed
        At(r) == runs[r].ret.result.Parsed[2]
        Decoded(r) == Unmarshal([strict |-> TRUE], runs[r].ret.result.Raw).value
    IN  /\ HasParsed(1) /\ HasParsed(2) => At(1) # At(2)
        /\ \A r \in 1..2 :
              HasParsed(r) =>
                  /\ At(r) \in 1..Len(heap)
                  /\ heap[At(r)] = IF runs[r].hist.mutated THEN Mutate(Decoded(r))
                                   ELSE Decoded(r)
        /\ hasSchema /\ schemaStrict

C38_Witness ==
    /\ pc = "done" /\ other.pc = "done"
    /\ ret.result # NoResult /\ other.ret.result # NoResult
    /\ ret.result.Attempts = 2
    /\ hist.mutated /\ ~other.hist.mutated
    /\ heap[ret.result.Parsed[2]][1] = "mutated"
    /\ heap[other.ret.result.Parsed[2]][1] = "parsed"
\* C39: Guard.Detectors() and Guard.Validators() return copies: replacing or
\* reordering the elements of the returned slice leaves the Guard's lists, and
\* with them the checks a later run executes, unchanged; the accessors return
\* nil when no check is configured.
C39_AccessorsReturnCopies ==
    LET IsPrefix(a, b) == Len(a) <= Len(b) /\ a = SubSeq(b, 1, Len(a))
    IN  /\ detectors = held.cfgDet
        /\ validators = held.cfgVal
        /\ IsPrefix(stage.detLog, held.cfgDet)
        /\ IsPrefix(stage.valLog, held.cfgVal)
        /\ held.det.fetched =>
              /\ held.det.nil <=> held.cfgDet = <<>>
              /\ ~held.det.modified => held.det.elems = held.cfgDet
        /\ held.val.fetched =>
              /\ held.val.nil <=> held.cfgVal = <<>>
              /\ ~held.val.modified => held.val.elems = held.cfgVal

C39_Witness ==
    /\ pc = "done"
    /\ held.det.before /\ held.val.before
    /\ held.det.elems = <<DetectorNames[2], DetectorNames[1]>>
    /\ held.val.elems[1] = <<"val", 0>>
    /\ stage.detLog = SubSeq(DetectorNames, 1, 2)
    /\ stage.valLog = SubSeq(ValidatorNames, 1, 2)
    /\ ret.result # NoResult
====
